---- MODULE Spec2Model ----
(***************************************************************************)
(* Model of the capture recorder (f1-udp-reciever/f1-packages.js), of the  *)
(* replay engine (f1-udp-reciever/replay-data.js), of the decoder          *)
(* (f1-udp-reciever/telemetry.js) and of the ingress service F1UDPService  *)
(* (test-connection.js) of the F1 telemetry tools.  Each is a process of   *)
(* its own with a specification of its own; the variables of the others    *)
(* stay as they are.                                                       *)
(*                                                                         *)
(* Recorder: the module-level variables of f1-packages.js, one action per  *)
(* keypress handler, per UDP datagram and per completion of a stream       *)
(* write.  A Node.js fs.WriteStream is modelled by what the code relies    *)
(* on: chunks written before end() reach the file in order and             *)
(* asynchronously, the write callback runs when its chunk completes, a     *)
(* write after end() is rejected with an error, and an error on a stream   *)
(* that has no 'error' listener (the code registers none) terminates the   *)
(* process.  cleanup, the signal handler, ends with process.exit(0),       *)
(* which does not wait for the writes still pending.                       *)
(*                                                                         *)
(* Replay: the locals of startReplay, one action per call of               *)
(* sendNextPacket and one for the passing of a millisecond.  setImmediate  *)
(* runs its callback at any later moment, setTimeout not before its delay  *)
(* has elapsed; a RangeError thrown by a Buffer read ends the process.     *)
(* The capture files replay starts on are built with the recorder's own    *)
(* framing (QueueEntry, ConcatEntries).                                    *)
(*                                                                         *)
(* Decoder: the Map drivers, sessionInfo and the two counters, one action  *)
(* for the message handler; the body decoders are operators on byte        *)
(* sequences of the real packet sizes.                                     *)
(*                                                                         *)
(* Service: the fields of one F1UDPService, one action per method called   *)
(* from outside and per socket or timer callback.  A udp4 socket binds     *)
(* only while no other socket of the process holds the port; listeners of  *)
(* the service's events return normally.                                   *)
(***************************************************************************)
EXTENDS Integers, Sequences, FiniteSets, TLC

\* ---------------------------------------------------------------- bounds
MaxMsgs == 2        \* datagrams delivered to the recorder in one run
MaxStarts == 2      \* write streams created in one run
Now0 == 900         \* Date.now() when the recorder process starts (ms)
TickMs == 60        \* the granularity of the modelled clock (ms)
MaxNow == 1020      \* the clock stops advancing here
MaxFrames == 2      \* frames in a capture file given to replay
MaxSpread == 3      \* Date.now() of a recorded frame is at most this after Now0 (ms)
MaxCut == 8         \* bytes missing from the end of a capture file given to replay
MaxSpeed == 2       \* the speed multipliers modelled (the prompt clamps to 1..10)
MaxElapsed == 4     \* the replay clock stops advancing this long after the start (ms)

\* ------------------------------------------------------ program constants
BatchLimit == 100   \* processWriteQueue: Math.min(100, writeQueue.length)
GapThreshold == 100 \* message handler: if (gap > 100)
NominalGap == 50    \* message handler: Math.floor(gap / 50) - 1
MetadataLen == 12   \* message handler: Buffer.alloc(12)
HeaderReadLen == 7  \* message handler: msg.readUInt8(6) needs 7 bytes

NULL == -1         \* null: no stream, no file name

Min(a, b) == IF a < b THEN a ELSE b
Max(a, b) == IF a > b THEN a ELSE b

\* ------------------------------------------------------------ byte buffers
RECURSIVE LEBytes(_, _)
\* Buffer.writeUInt32LE / writeBigUInt64LE: n as w little-endian bytes
LEBytes(n, w) == IF w = 0 THEN <<>> ELSE <<n % 256>> \o LEBytes(n \div 256, w - 1)

RECURSIVE LEValue(_, _, _)
\* Buffer.readUInt32LE / readBigUInt64LE: the w bytes of buf from 0-based offset off
LEValue(buf, off, w) ==
    IF w = 0 THEN 0 ELSE buf[off + 1] + 256 * LEValue(buf, off + 1, w - 1)

\* Buffer.slice(start, end): clamped to the buffer, never an error
Slice(buf, start, end) ==
    LET s == Min(start, Len(buf))
        e == Min(end, Len(buf))
    IN  IF e <= s THEN <<>> ELSE SubSeq(buf, s + 1, e)

\* Sample datagrams: the first 7 or 8 bytes of a packet header
\* (packetFormat u16 @0, packetId u8 @6), and one shorter than a header read.
DgTelemetry == <<233, 7, 25, 1, 0, 1, 6>>
DgSession == <<232, 7, 24, 1, 0, 1, 1, 0>>
DgShort == <<233, 7, 25>>
Datagrams == {DgTelemetry, DgSession, DgShort}

packetTypes ==
    <<"Motion", "Session", "Lap Data", "Event", "Participants", "Car Setups",
      "Car Telemetry", "Car Status", "Final Classification", "Lobby Info",
      "Car Damage", "Session History", "Tyre Sets", "Motion Ex", "Time Trial">>

\* packetTypes[packetId] || 'Unknown'
PacketTypeOf(packetId) ==
    IF packetId + 1 \in DOMAIN packetTypes THEN packetTypes[packetId + 1] ELSE "Unknown"

\* an entry whose length field counts the metadata too
QueueEntryLengthOfFrame(msg, t) ==
    [metadata |-> LEBytes(Len(msg) + 12, 4) \o LEBytes(t, 8), data |-> msg]

\* The queue entry of one datagram: 12 bytes of metadata and a copy of the data
QueueEntry(msg, t) ==
    [metadata |-> LEBytes(Len(msg), 4) \o LEBytes(t, 8), data |-> msg]

RECURSIVE ConcatEntries(_)
\* buffers.push(metadata, data) for each entry, then Buffer.concat(buffers)
ConcatEntries(entries) ==
    IF entries = <<>> THEN <<>>
    ELSE IF Len(entries) = 1 THEN entries[1].metadata \o entries[1].data
    ELSE LET half == Len(entries) \div 2
         IN  ConcatEntries(SubSeq(entries, 1, half))
               \o ConcatEntries(SubSeq(entries, half + 1, Len(entries)))

\* new Date().toISOString() cut to whole seconds: the name of a temp or final file
FileStamp(t) == t \div 1000

VARIABLES
    currentState,       \* RecordState
    writeStream,        \* NULL or an index into streams
    currentTempFile,    \* NULL or a name in temp_sessions/
    packetCount, dataSize, sessionStartTime, lastPacketTime, maxGap,
    droppedPackets, packetStats,
    writeQueue, isWriting,
    console,            \* the last message a keypress handler printed
    now,                \* Date.now()
    streams,            \* every fs.WriteStream created: file, ended, pending chunks
    inodes,             \* the contents of every file created
    tempDir,            \* temp_sessions/: name -> index into inodes
    dataDir,            \* captured_data/: name -> index into inodes
    crashed,            \* the recorder process died of an uncaught error
    exited,             \* process.exit(0) was called
    arrived,            \* datagrams delivered so far
    accepted,           \* history: queue entries pushed since the last start
    acceptedTimes,      \* history: arrival times of the datagrams handled since the last start
    submitted,          \* history: queue entries passed to writeStream.write since the last start
    \* --- replay-data.js, startReplay
    fileBuffer,         \* fs.readFileSync(filepath)
    speed,              \* the speed multiplier
    offset, replayPacketCount, firstTimestamp, replayStartTime,
    timer,              \* the pending call of sendNextPacket
    clock,              \* Date.now() of the replay process
    replayStatus,       \* "running", "complete" (process.exit(0)) or "error" (uncaught exception)
    sent,               \* history: every datagram given to client.send
    targetDelays,       \* history: the replayDelay computed after each send
    recorded            \* history: the frames the capture file was written from

recVars ==
    <<currentState, writeStream, currentTempFile, packetCount, dataSize,
      sessionStartTime, lastPacketTime, maxGap, droppedPackets, packetStats,
      writeQueue, isWriting, console, now, streams, inodes, tempDir, dataDir,
      crashed, exited, arrived, accepted, acceptedTimes, submitted>>

counters ==
    <<packetCount, dataSize, sessionStartTime, lastPacketTime, maxGap,
      droppedPackets, packetStats>>

repVars ==
    <<fileBuffer, speed, offset, replayPacketCount, firstTimestamp,
      replayStartTime, timer, clock, replayStatus, sent, targetDelays, recorded>>

VARIABLES
    \* --- telemetry.js
    drivers,            \* the Map of car slots: slot -> driver object
    sessionInfo,
    decoderPacketCount, \* packetCount of telemetry.js
    errorCount,
    lastMsg,            \* history: the datagram the decoder handled last
    \* --- test-connection.js, one F1UDPService instance
    forwardingEnabled,  \* config.forwardingEnabled
    socket,             \* this.socket: NULL or an index into sockets
    forwardSocket,      \* this.forwardSocket: TRUE when there is one
    isRunning,
    stats,
    packetRateCounter,  \* this._packetRateCounter
    packetRateInterval, \* this._packetRateInterval: NULL or an index into intervals
    sockets,            \* every dgram socket created for receiving: its state
    intervals,          \* every setInterval timer created: TRUE while live
    emitted,            \* history: the events emitted by the last call or callback
    forwarded,          \* history: datagrams the last call gave to forwardSocket.send
    thrown,             \* history: the last call threw (start, stop) or its callback did
    handled,            \* history: datagrams delivered to _handleMessage so far
    svcMsg,             \* history: the datagram _handleMessage handled last
    svcCrashed,         \* the service process died of an uncaught error
    sinceBoundary,      \* datagrams handled since the last window boundary
    sinceMark,          \* datagrams handled since the last boundary or reset
    windowSum           \* sum of the packetsPerSecond published since the
                        \* statistics were last reset

decVars == <<drivers, sessionInfo, decoderPacketCount, errorCount, lastMsg>>

svcVars ==
    <<forwardingEnabled, socket, forwardSocket, isRunning, stats,
      packetRateCounter, packetRateInterval, sockets, intervals, emitted,
      forwarded, thrown, handled, svcMsg, svcCrashed, sinceBoundary, sinceMark,
      windowSum>>

\* what the rate monitor has seen: history kept to state its properties
rateHistory == <<sinceBoundary, sinceMark, windowSum>>

vars == <<recVars, repVars, decVars, svcVars>>

RecInit ==
    /\ currentState = "idle"
    /\ writeStream = NULL
    /\ currentTempFile = NULL
    /\ packetCount = 0 /\ dataSize = 0 /\ sessionStartTime = 0
    /\ lastPacketTime = 0 /\ maxGap = 0 /\ droppedPackets = 0
    /\ packetStats = <<>>
    /\ writeQueue = <<>> /\ isWriting = FALSE
    /\ console = "none"
    /\ now = Now0
    /\ streams = <<>> /\ inodes = <<>>
    /\ tempDir = <<>> /\ dataDir = <<>>
    /\ crashed = FALSE /\ exited = FALSE
    /\ arrived = 0
    /\ accepted = <<>> /\ acceptedTimes = <<>> /\ submitted = <<>>

\* ------------------------------------------------------------ file system
\* removing one name from a directory
Unlink(dir, name) == [n \in DOMAIN dir \ {name} |-> dir[n]]
\* binding a name in a directory (replacing what it named)
Link(dir, name, ino) == [n \in DOMAIN dir \cup {name} |-> IF n = name THEN ino ELSE dir[n]]

\* writeStream.end(): no further write is accepted; pending chunks still land
EndStream(strs, ws) == [strs EXCEPT ![ws].ended = TRUE]

\* ------------------------------------------------------ processWriteQueue
\* a batch of the whole queue
batchOfWholeQueue(queue) == Len(queue)

\* Math.min(100, writeQueue.length)
batchLength(queue) == Min(BatchLimit, Len(queue))

RECURSIVE processWriteQueue(_)
\* st: the variables the function reads and writes, as a record
processWriteQueue(st) ==
    IF st.writeStream = NULL \/ st.isWriting \/ st.writeQueue = <<>> THEN st
    ELSE LET n == batchLength(st.writeQueue)
             batch == SubSeq(st.writeQueue, 1, n)
             rest == SubSeq(st.writeQueue, n + 1, Len(st.writeQueue))
         IN  IF st.streams[st.writeStream].ended
             THEN \* write after end: the stream rejects the chunk, calls back with
                  \* the error on the next tick (which drains the next batch) and
                  \* raises an 'error' event nobody listens to
                  processWriteQueue(
                      [st EXCEPT !.isWriting = FALSE, !.writeQueue = rest,
                                 !.droppedPackets = @ + n,
                                 !.submitted = @ \o batch,
                                 !.crashed = TRUE])
             ELSE [st EXCEPT !.isWriting = TRUE, !.writeQueue = rest,
                             !.submitted = @ \o batch,
                             !.streams[st.writeStream].pending =
                                 Append(@, [bytes |-> ConcatEntries(batch),
                                            cb |-> TRUE, n |-> n])]

QueueState ==
    [writeStream |-> writeStream, isWriting |-> isWriting, writeQueue |-> writeQueue,
     droppedPackets |-> droppedPackets, submitted |-> submitted,
     streams |-> streams, crashed |-> crashed]

SetQueueState(st) ==
    /\ isWriting' = st.isWriting
    /\ writeQueue' = st.writeQueue
    /\ droppedPackets' = st.droppedPackets
    /\ submitted' = st.submitted
    /\ streams' = st.streams
    /\ crashed' = st.crashed

\* The recorder with a backlog: a recording was started and 1 + backlog
\* Car Telemetry datagrams arrived before the first write completed, so one
\* frame is in flight and backlog frames are queued.  One datagram of the
\* run is still to arrive.
Backlogs == {BatchLimit - 1, BatchLimit + 1}

BacklogInit ==
    \E backlog \in Backlogs :
        LET entry == QueueEntry(DgTelemetry, Now0)
            queue == [k \in 1..backlog |-> entry]
        IN  /\ currentState = "recording"
            /\ writeStream = 1
            /\ currentTempFile = FileStamp(Now0)
            /\ packetCount = backlog + 1
            /\ dataSize = (backlog + 1) * (MetadataLen + Len(DgTelemetry))
            /\ sessionStartTime = Now0
            /\ lastPacketTime = Now0 /\ maxGap = 0 /\ droppedPackets = 0
            /\ packetStats = [t \in {PacketTypeOf(DgTelemetry[7])} |-> backlog + 1]
            /\ writeQueue = queue /\ isWriting = TRUE
            /\ console = "started"
            /\ now = Now0
            /\ streams = <<[inode |-> 1, ended |-> FALSE,
                            pending |-> <<[bytes |-> ConcatEntries(<<entry>>),
                                           cb |-> TRUE, n |-> 1]>>]>>
            /\ inodes = <<<<>>>>
            /\ tempDir = Link(<<>>, FileStamp(Now0), 1) /\ dataDir = <<>>
            /\ crashed = FALSE /\ exited = FALSE
            /\ arrived = MaxMsgs - 1
            /\ accepted = <<entry>> \o queue
            /\ acceptedTimes = [k \in 1..(backlog + 1) |-> Now0]
            /\ submitted = <<entry>>

\* ------------------------------------------------------ keypress handlers
startNewRecording ==
    /\ ~crashed /\ ~exited
    /\ UNCHANGED <<repVars, decVars, svcVars, exited>>
    /\ IF currentState = "recording"
       THEN /\ console' = "already recording"
            /\ UNCHANGED <<currentState, writeStream, currentTempFile, counters,
                           writeQueue, isWriting, now, streams, inodes, tempDir,
                           dataDir, crashed, arrived, acceptedTimes, accepted, submitted>>
       ELSE /\ Len(streams) < MaxStarts
            /\ LET name == FileStamp(now)
                   ended == IF writeStream # NULL THEN EndStream(streams, writeStream)
                            ELSE streams
                   \* fs.createWriteStream, flags 'w': creates the file, or
                   \* truncates the file that has the name
                   ino == IF name \in DOMAIN tempDir THEN tempDir[name]
                          ELSE Len(inodes) + 1
               IN  /\ packetCount' = 0 /\ dataSize' = 0 /\ sessionStartTime' = 0
                   /\ lastPacketTime' = 0 /\ maxGap' = 0 /\ droppedPackets' = 0
                   /\ writeQueue' = <<>>
                   /\ packetStats' = <<>>
                   /\ currentTempFile' = name
                   /\ inodes' = IF name \in DOMAIN tempDir
                                THEN [inodes EXCEPT ![ino] = <<>>]
                                ELSE Append(inodes, <<>>)
                   /\ tempDir' = Link(tempDir, name, ino)
                   /\ streams' = Append(ended, [inode |-> ino, ended |-> FALSE,
                                                pending |-> <<>>])
                   /\ writeStream' = Len(streams) + 1
                   /\ currentState' = "recording"
                   /\ console' = "started"
                   /\ accepted' = <<>> /\ submitted' = <<>>
                   /\ acceptedTimes' = <<>>
                   /\ UNCHANGED <<isWriting, now, dataDir, crashed, arrived>>

finishRecording ==
    /\ ~crashed /\ ~exited
    /\ UNCHANGED <<repVars, decVars, svcVars, exited>>
    /\ IF currentState # "recording" /\ currentState # "paused"
       THEN /\ console' = "not recording"
            /\ UNCHANGED <<currentState, writeStream, currentTempFile, counters,
                           writeQueue, isWriting, now, streams, inodes, tempDir,
                           dataDir, crashed, arrived, acceptedTimes, accepted, submitted>>
       ELSE /\ currentState' = "finished"
            \* flush remaining queue: one write without a callback; the queue is
            \* read, not emptied
            /\ LET flushed ==
                       IF Len(writeQueue) > 0
                       THEN [streams EXCEPT ![writeStream].pending =
                                Append(@, [bytes |-> ConcatEntries(writeQueue),
                                           cb |-> FALSE, n |-> Len(writeQueue)])]
                       ELSE streams
               IN  streams' = EndStream(flushed, writeStream)
            /\ submitted' = submitted \o writeQueue
            /\ console' = "finished"
            /\ UNCHANGED <<writeStream, currentTempFile, counters, writeQueue,
                           isWriting, now, inodes, tempDir, dataDir, crashed,
                           arrived, acceptedTimes, accepted>>

\* a save that forgets to look at the state
saveRefusedWithoutFile == currentTempFile = NULL

\* if (currentState !== RecordState.FINISHED || !currentTempFile)
saveRefused == currentState # "finished" \/ currentTempFile = NULL

saveRecording ==
    /\ ~crashed /\ ~exited
    /\ UNCHANGED <<repVars, decVars, svcVars, exited>>
    /\ IF saveRefused
       THEN /\ console' = "nothing to save"
            /\ UNCHANGED <<currentState, writeStream, currentTempFile, counters,
                           writeQueue, isWriting, now, streams, inodes, tempDir,
                           dataDir, crashed, arrived, acceptedTimes, accepted, submitted>>
       ELSE IF currentTempFile \notin DOMAIN tempDir
       THEN \* fs.renameSync throws ENOENT
            /\ crashed' = TRUE
            /\ UNCHANGED <<currentState, writeStream, currentTempFile, counters,
                           writeQueue, isWriting, console, now, streams, inodes,
                           tempDir, dataDir, arrived, acceptedTimes, accepted, submitted>>
       ELSE /\ dataDir' = Link(dataDir, FileStamp(now), tempDir[currentTempFile])
            /\ tempDir' = Unlink(tempDir, currentTempFile)
            /\ currentState' = "idle"
            /\ currentTempFile' = NULL
            /\ writeStream' = NULL
            /\ console' = "saved"
            /\ UNCHANGED <<counters, writeQueue, isWriting, now, streams, inodes,
                           crashed, arrived, acceptedTimes, accepted, submitted>>

\* a discard that forgets to delete the file
tempDirKept == tempDir

\* if (fs.existsSync(currentTempFile)) fs.unlinkSync(currentTempFile)
tempDirAfterDiscard ==
    IF currentTempFile \in DOMAIN tempDir THEN Unlink(tempDir, currentTempFile)
    ELSE tempDir

discardRecording ==
    /\ ~crashed /\ ~exited
    /\ UNCHANGED <<repVars, decVars, svcVars, exited>>
    /\ IF currentTempFile = NULL
       THEN /\ console' = "nothing to discard"
            /\ UNCHANGED <<currentState, writeStream, currentTempFile, counters,
                           writeQueue, isWriting, now, streams, inodes, tempDir,
                           dataDir, crashed, arrived, acceptedTimes, accepted, submitted>>
       ELSE /\ streams' = IF writeStream # NULL THEN EndStream(streams, writeStream)
                          ELSE streams
            /\ tempDir' = tempDirAfterDiscard
            /\ currentState' = "idle"
            /\ currentTempFile' = NULL
            /\ writeStream' = NULL
            /\ console' = "discarded"
            /\ UNCHANGED <<counters, writeQueue, isWriting, now, inodes, dataDir,
                           crashed, arrived, acceptedTimes, accepted, submitted>>

\* a toggle that resumes whatever is not recording
pauseToggledLoosely(state) ==
    IF state = "recording" THEN [state |-> "paused", console |-> "paused"]
    ELSE [state |-> "recording", console |-> "resumed"]

\* the state and the message togglePause leaves
pauseToggled(state) ==
    IF state = "recording" THEN [state |-> "paused", console |-> "paused"]
    ELSE IF state = "paused" THEN [state |-> "recording", console |-> "resumed"]
    ELSE [state |-> state, console |-> "start a recording first"]

togglePause ==
    /\ ~crashed /\ ~exited
    /\ UNCHANGED <<repVars, decVars, svcVars, exited>>
    /\ currentState' = pauseToggled(currentState).state
    /\ console' = pauseToggled(currentState).console
    /\ UNCHANGED <<writeStream, currentTempFile, counters, writeQueue, isWriting,
                   now, streams, inodes, tempDir, dataDir, crashed, arrived, acceptedTimes,
                   accepted, submitted>>

\* -------------------------------------------------------- server.on('message')
\* a handler that ignores datagrams only while idle
ignoredOnlyWhenIdle(state) == state = "idle"

\* if (currentState !== RecordState.RECORDING) return;
notRecording(state) == state # "recording"

\* a detector that counts the packet that did arrive as missed too
missedPacketsWithArrival(last, gap) ==
    IF last > 0 /\ gap > GapThreshold /\ gap \div NominalGap > 0
    THEN gap \div NominalGap ELSE 0

\* what the gap to the datagram before adds to droppedPackets:
\* Math.floor(gap / 50) - 1 when lastPacketTime > 0, gap > 100 and that is
\* above 0
missedPackets(last, gap) ==
    IF last > 0 /\ gap > GapThreshold /\ (gap \div NominalGap) - 1 > 0
    THEN (gap \div NominalGap) - 1 ELSE 0

Message(msg) ==
    /\ ~crashed /\ ~exited
    /\ UNCHANGED <<repVars, decVars, svcVars, exited>>
    /\ arrived < MaxMsgs
    /\ arrived' = arrived + 1
    /\ IF notRecording(currentState)
       THEN UNCHANGED <<counters, writeQueue, isWriting, streams, crashed,
                        accepted, acceptedTimes, submitted>>
       ELSE LET gap == now - lastPacketTime
                dropped == droppedPackets + missedPackets(lastPacketTime, gap)
            IN  /\ packetCount' = packetCount + 1
                /\ acceptedTimes' = Append(acceptedTimes, now)
                /\ sessionStartTime' = IF sessionStartTime = 0 THEN now
                                       ELSE sessionStartTime
                /\ maxGap' = IF lastPacketTime > 0 THEN Max(maxGap, gap) ELSE maxGap
                /\ lastPacketTime' = now
                /\ IF Len(msg) < HeaderReadLen
                   THEN \* msg.readUInt16LE(0) or msg.readUInt8(6) throws a RangeError
                        /\ crashed' = TRUE
                        /\ droppedPackets' = dropped
                        /\ UNCHANGED <<dataSize, packetStats, writeQueue, isWriting,
                                       streams, accepted, submitted>>
                   ELSE LET packetType == PacketTypeOf(msg[7])
                            entry == QueueEntry(msg, now)
                        IN  /\ packetStats' =
                                   [t \in DOMAIN packetStats \cup {packetType} |->
                                       IF t = packetType
                                       THEN (IF t \in DOMAIN packetStats
                                             THEN packetStats[t] ELSE 0) + 1
                                       ELSE packetStats[t]]
                            /\ dataSize' = dataSize + MetadataLen + Len(msg)
                            /\ accepted' = Append(accepted, entry)
                            /\ SetQueueState(processWriteQueue(
                                   [QueueState EXCEPT
                                       !.writeQueue = Append(writeQueue, entry),
                                       !.droppedPackets = dropped]))
    /\ UNCHANGED <<currentState, writeStream, currentTempFile, console, now,
                   inodes, tempDir, dataDir>>

\* ------------------------------------------- completion of a stream write
\* The oldest pending chunk of stream s completes, with or without an I/O
\* error; the callback given to writeStream.write (if any) runs.
WriteComplete(s, err) ==
    /\ ~crashed /\ ~exited
    /\ UNCHANGED <<repVars, decVars, svcVars, exited>>
    /\ streams[s].pending # <<>>
    /\ LET c == Head(streams[s].pending)
           popped == [streams EXCEPT ![s].pending = Tail(@)]
           after ==
               IF c.cb
               THEN processWriteQueue(
                        [QueueState EXCEPT
                            !.streams = popped,
                            !.isWriting = FALSE,
                            !.droppedPackets = IF err THEN @ + c.n ELSE @])
               ELSE [QueueState EXCEPT !.streams = popped]
       IN  /\ inodes' = IF err THEN inodes
                        ELSE [inodes EXCEPT ![streams[s].inode] = @ \o c.bytes]
           \* a failed write also raises 'error' on the stream: nobody listens
           /\ SetQueueState([after EXCEPT !.crashed = @ \/ err])
    /\ UNCHANGED <<currentState, writeStream, currentTempFile, packetCount,
                   dataSize, sessionStartTime, lastPacketTime, maxGap,
                   packetStats, console, now, tempDir, dataDir, arrived, acceptedTimes, accepted>>

\* Date.now() advances
Tick ==
    /\ ~crashed /\ ~exited
    /\ UNCHANGED <<repVars, decVars, svcVars, exited>>
    /\ now + TickMs <= MaxNow
    /\ now' = now + TickMs
    /\ UNCHANGED <<currentState, writeStream, currentTempFile, counters,
                   writeQueue, isWriting, console, streams, inodes, tempDir,
                   dataDir, crashed, arrived, acceptedTimes, accepted, submitted>>

\* ---------------------------------------------------------------- cleanup
\* SIGINT or SIGTERM: finishRecording and saveRecording as the state asks,
\* then process.exit(0).  The writes still pending on a stream are not
\* awaited: of each stream the write handed to the file system may or may
\* not reach the file, the chunks behind it are lost, no callback runs.
cleanup ==
    /\ ~crashed /\ ~exited
    /\ UNCHANGED <<repVars, decVars, svcVars>>
    /\ LET finishing == currentState \in {"recording", "paused"}
           saving == finishing \/ currentState = "finished"
           flushed ==
               IF finishing
               THEN EndStream(
                        IF Len(writeQueue) > 0
                        THEN [streams EXCEPT ![writeStream].pending =
                                 Append(@, [bytes |-> ConcatEntries(writeQueue),
                                            cb |-> FALSE, n |-> Len(writeQueue)])]
                        ELSE streams,
                        writeStream)
               ELSE streams
       IN  /\ submitted' = IF finishing THEN submitted \o writeQueue ELSE submitted
           /\ IF saving /\ currentTempFile \notin DOMAIN tempDir
              THEN \* fs.renameSync throws ENOENT
                   /\ crashed' = TRUE
                   /\ currentState' = "finished"
                   /\ streams' = flushed
                   /\ console' = IF finishing THEN "finished" ELSE console
                   /\ UNCHANGED <<writeStream, currentTempFile, inodes, tempDir,
                                  dataDir, exited>>
              ELSE /\ \E landed \in SUBSET {s \in DOMAIN flushed :
                                               flushed[s].pending # <<>>} :
                        /\ inodes' =
                               [ino \in DOMAIN inodes |->
                                   IF \E s \in landed : flushed[s].inode = ino
                                   THEN LET s == CHOOSE t \in landed :
                                                    flushed[t].inode = ino
                                        IN  inodes[ino] \o Head(flushed[s].pending).bytes
                                   ELSE inodes[ino]]
                        /\ streams' = [s \in DOMAIN flushed |->
                                          [flushed[s] EXCEPT !.pending = <<>>]]
                   /\ IF saving
                      THEN /\ dataDir' = Link(dataDir, FileStamp(now),
                                              tempDir[currentTempFile])
                           /\ tempDir' = Unlink(tempDir, currentTempFile)
                      ELSE UNCHANGED <<dataDir, tempDir>>
                   /\ currentState' = "idle"
                   /\ currentTempFile' = NULL
                   /\ writeStream' = NULL
                   /\ console' = "goodbye"
                   /\ exited' = TRUE
                   /\ UNCHANGED crashed
    /\ UNCHANGED <<counters, writeQueue, isWriting, now, arrived, acceptedTimes,
                   accepted>>

RecNext ==
    \/ startNewRecording
    \/ cleanup
    \/ finishRecording
    \/ saveRecording
    \/ discardRecording
    \/ togglePause
    \/ \E msg \in Datagrams : Message(msg)
    \/ \E s \in DOMAIN streams : \E err \in BOOLEAN : WriteComplete(s, err)
    \/ Tick

\* =========================================================== replay engine
\* Times the replay engine computes with are kept in units of 1/DelayScale ms,
\* so that originalDelay / speed is exact for every modelled speed.
RECURSIVE Factorial(_)
Factorial(n) == IF n <= 1 THEN 1 ELSE n * Factorial(n - 1)
DelayScale == Factorial(MaxSpeed)
Speeds == 1..MaxSpeed

\* a delay rounded down to whole milliseconds
replayDelayFloored(originalDelay, s) == (originalDelay \div s) * DelayScale

\* const replayDelay = originalDelay / speed   (in 1/DelayScale ms)
replayDelay(originalDelay, s) == (originalDelay * DelayScale) \div s

\* Buffer.readUInt32LE(off), readBigUInt64LE(off): a RangeError past the end
CanRead(buf, off, w) == off + w <= Len(buf)

\* The capture files replay is started on: written by the recorder from up to
\* MaxFrames datagrams it accepts, at non-decreasing Date.now() values, and
\* possibly cut short by up to MaxCut bytes.
RecorderDatagrams == {d \in Datagrams : Len(d) >= HeaderReadLen}
FrameTimes == Now0..(Now0 + MaxSpread)
Recordings ==
    UNION {{f \in [1..n -> [msg : RecorderDatagrams, t : FrameTimes]] :
               \A i \in 1..(n - 1) : f[i].t <= f[i + 1].t} : n \in 0..MaxFrames}
FileOf(frames) ==
    ConcatEntries([i \in DOMAIN frames |-> QueueEntry(frames[i].msg, frames[i].t)])

ReplayInit ==
    /\ recorded \in Recordings
    /\ \E cut \in 0..MaxCut :
          fileBuffer = SubSeq(FileOf(recorded), 1, Len(FileOf(recorded)) - cut)
    /\ speed \in Speeds
    /\ offset = 0
    /\ replayPacketCount = 0
    /\ firstTimestamp = NULL
    /\ clock = Now0
    /\ replayStartTime = Now0
    /\ timer = [kind |-> "call", due |-> 0]
    /\ replayStatus = "running"
    /\ sent = <<>>
    /\ targetDelays = <<>>

\* Well-formed capture files: whole frames, each of a datagram the recorder
\* accepts or of an empty payload, at non-decreasing times
WellFormedRecordings ==
    UNION {{f \in [1..n -> [msg : RecorderDatagrams \cup {<<>>}, t : FrameTimes]] :
               \A i \in 1..(n - 1) : f[i].t <= f[i + 1].t} : n \in 0..MaxFrames}

\* startReplay on a well-formed capture file
ReplayWellFormedInit ==
    /\ recorded \in WellFormedRecordings
    /\ fileBuffer = FileOf(recorded)
    /\ speed \in Speeds
    /\ offset = 0
    /\ replayPacketCount = 0
    /\ firstTimestamp = NULL
    /\ clock = Now0
    /\ replayStartTime = Now0
    /\ timer = [kind |-> "call", due |-> 0]
    /\ replayStatus = "running"
    /\ sent = <<>>
    /\ targetDelays = <<>>

\* an advance that forgets the 12 bytes of metadata
offsetAfterPayloadOnly(off, packetSize) == off + packetSize

\* offset += 12; offset += packetSize
offsetAfter(off, packetSize) == off + 12 + packetSize

\* One call of sendNextPacket: directly from startReplay ("call"), from
\* setImmediate, or from setTimeout once its delay has elapsed.
sendNextPacket ==
    /\ replayStatus = "running"
    /\ UNCHANGED <<recVars, decVars, svcVars>>
    /\ \/ timer.kind \in {"call", "immediate"}
       \/ timer.kind = "timeout" /\ clock * DelayScale >= timer.due
    /\ IF offset >= Len(fileBuffer)
       THEN /\ replayStatus' = "complete"
            /\ timer' = [kind |-> "none", due |-> 0]
            /\ UNCHANGED <<offset, replayPacketCount, firstTimestamp, sent,
                           targetDelays>>
       ELSE IF ~CanRead(fileBuffer, offset, 4) \/ ~CanRead(fileBuffer, offset + 4, 8)
       THEN \* RangeError thrown out of the timer callback
            /\ replayStatus' = "error"
            /\ timer' = [kind |-> "none", due |-> 0]
            /\ UNCHANGED <<offset, replayPacketCount, firstTimestamp, sent,
                           targetDelays>>
       ELSE LET packetSize == LEValue(fileBuffer, offset, 4)
                timestamp == LEValue(fileBuffer, offset + 4, 8)
                packetData == Slice(fileBuffer, offset + 12, offset + 12 + packetSize)
            IN  /\ offset' = offsetAfter(offset, packetSize)
                /\ sent' = Append(sent, [data |-> packetData, size |-> packetSize,
                                         timestamp |-> timestamp, at |-> clock])
                /\ replayPacketCount' = replayPacketCount + 1
                /\ replayStatus' = replayStatus
                /\ IF firstTimestamp = NULL
                   THEN /\ firstTimestamp' = timestamp
                        /\ timer' = [kind |-> "immediate", due |-> 0]
                        /\ targetDelays' = Append(targetDelays, NULL)
                   ELSE LET originalDelay == timestamp - firstTimestamp
                            delay == replayDelay(originalDelay, speed)
                            targetTime == replayStartTime * DelayScale + delay
                            waitTime == targetTime - clock * DelayScale
                        IN  /\ firstTimestamp' = firstTimestamp
                            /\ targetDelays' = Append(targetDelays, delay)
                            /\ timer' = IF waitTime > 0
                                        THEN [kind |-> "timeout",
                                              due |-> clock * DelayScale + waitTime]
                                        ELSE [kind |-> "immediate", due |-> 0]
    /\ UNCHANGED <<fileBuffer, speed, replayStartTime, clock, recorded>>

\* Date.now() of the replay process advances by 1 ms; not inside startReplay
ReplayTick ==
    /\ replayStatus = "running"
    /\ UNCHANGED <<recVars, decVars, svcVars>>
    /\ timer.kind # "call"
    /\ clock < Now0 + MaxElapsed
    /\ clock' = clock + 1
    /\ UNCHANGED <<fileBuffer, speed, offset, replayPacketCount, firstTimestamp,
                   replayStartTime, timer, replayStatus, sent, targetDelays,
                   recorded>>

\* The replay process is not running beside the recorder
ReplayIdle ==
    /\ recorded = <<>> /\ fileBuffer = <<>> /\ speed = 1
    /\ offset = 0 /\ replayPacketCount = 0 /\ firstTimestamp = NULL
    /\ clock = Now0 /\ replayStartTime = Now0
    /\ timer = [kind |-> "none", due |-> 0]
    /\ replayStatus = "complete"
    /\ sent = <<>> /\ targetDelays = <<>>

ReplayNext ==
    \/ sendNextPacket
    \/ ReplayTick

\* ================================================= telemetry.js: the decoder
MaxDecoded == 3     \* datagrams delivered to the decoder in one run

HeaderSize == 29            \* parseHeader: if (buffer.length < 29)
MaxCars == 22               \* the car arrays hold 22 records
SessionMinSize == 644       \* parseSession: if (buffer.length < 644)
LapDataMinSize == 1131      \* parseLapData: if (buffer.length < 1131)
ParticipantsMinSize == 1306 \* parseParticipants: if (buffer.length < 1306)
CarTelemetryMinSize == 1352 \* parseCarTelemetry: if (buffer.length < 1352)
CarStatusMinSize == 1239    \* parseCarStatus: if (buffer.length < 1239)
MotionSize == 1349          \* PACKET_SIZES[0]
ParticipantStride == 58     \* offset += 58
CarTelemetryStride == 60    \* offset += 60
LapDataStride == 50         \* offset += 50
CarStatusStride == 55       \* offset += 55
NameLen == 48               \* safeReadString(buffer, offset + 7, 48)
ReplacementChar == 65533    \* U+FFFD, what toString('utf8') gives for a byte that is not UTF-8

PACKET_IDS ==
    [MOTION |-> 0, SESSION |-> 1, LAP_DATA |-> 2, EVENT |-> 3, PARTICIPANTS |-> 4,
     CAR_SETUPS |-> 5, CAR_TELEMETRY |-> 6, CAR_STATUS |-> 7]

\* The formats the message handler of telemetry.js lets through
SupportedFormats == {2025, 2024}

\* ---------------------------------------------------------------- readers
\* Buffer.readUInt8 and the like throw a RangeError outside the buffer
InRange(buffer, off, w) == off >= 0 /\ off + w <= Len(buffer)

safeReadUInt8(buffer, off) ==
    IF off < 0 \/ off >= Len(buffer) THEN 0 ELSE buffer[off + 1]

safeReadUInt16LE(buffer, off) ==
    IF off < 0 \/ off + 1 >= Len(buffer) THEN 0 ELSE LEValue(buffer, off, 2)

\* The Number NaN: one value, whatever the word it was read from
NaN == [sign |-> 0, exponent |-> 255, fraction |-> 4194304]

\* Buffer.readFloatLE inside the buffer: the Number the IEEE-754 word stands
\* for, as its sign, biased exponent and fraction (every single-precision
\* value is a Number).  A word with exponent 255 and a fraction other than 0
\* is NaN.
readFloatLE(buffer, off) ==
    LET sign == buffer[off + 4] \div 128
        exponent == (buffer[off + 4] % 128) * 2 + (buffer[off + 3] \div 128)
        fraction == (buffer[off + 3] % 128) * 65536 + buffer[off + 2] * 256
                        + buffer[off + 1]
    IN  IF exponent = 255 /\ fraction # 0 THEN NaN
        ELSE [sign |-> sign, exponent |-> exponent, fraction |-> fraction]

\* safeReadFloatLE: 0 outside the buffer
safeReadFloatLE(buffer, off) ==
    IF off < 0 \/ off + 3 >= Len(buffer)
    THEN [sign |-> 0, exponent |-> 0, fraction |-> 0]
    ELSE readFloatLE(buffer, off)

\* Buffer.readBigUInt64LE inside the buffer, as four 16-bit limbs, least
\* significant first
readBigUInt64LE(buffer, off) ==
    [k \in 1..4 |-> LEValue(buffer, off + 2 * (k - 1), 2)]

\* Buffer.readInt8 inside the buffer: the byte as a two's complement number
readInt8(buffer, off) ==
    IF buffer[off + 1] >= 128 THEN buffer[off + 1] - 256 ELSE buffer[off + 1]

\* a reader of the low 16 bits only
readUInt32LELow16(buffer, off) ==
    [lo |-> LEValue(buffer, off, 2), hi |-> 0]

\* Buffer.readUInt32LE inside the buffer, as two 16-bit halves (the value is
\* hi * 65536 + lo)
readUInt32LE(buffer, off) ==
    [lo |-> LEValue(buffer, off, 2), hi |-> LEValue(buffer, off + 2, 2)]

\* toString('utf8') of bytes among which no multi-byte sequence is
\* well-formed: an ASCII byte is its character, any other byte U+FFFD
Utf8(bytes) ==
    [i \in DOMAIN bytes |-> IF bytes[i] < 128 THEN bytes[i] ELSE ReplacementChar]

\* .replace(/\0/g, '')
StripNulls(chars) == SelectSeq(chars, LAMBDA c : c # 0)

\* the white space String.prototype.trim removes, among the characters Utf8 gives
IsSpace(c) == c \in {9, 10, 11, 12, 13, 32}

RECURSIVE TrimStart(_)
TrimStart(chars) ==
    IF chars # <<>> /\ IsSpace(Head(chars)) THEN TrimStart(Tail(chars)) ELSE chars

RECURSIVE TrimEnd(_)
TrimEnd(chars) ==
    IF chars # <<>> /\ IsSpace(chars[Len(chars)])
    THEN TrimEnd(SubSeq(chars, 1, Len(chars) - 1))
    ELSE chars

\* a reader that strips the null bytes and does not trim
safeReadStringUntrimmed(buffer, off, length) ==
    IF off < 0 \/ off + length > Len(buffer) THEN <<>>
    ELSE StripNulls(Utf8(Slice(buffer, off, Min(off + length, Len(buffer)))))

\* a string is the sequence of its character codes
safeReadString(buffer, off, length) ==
    IF off < 0 \/ off + length > Len(buffer) THEN <<>>
    ELSE TrimEnd(TrimStart(StripNulls(Utf8(
             Slice(buffer, off, Min(off + length, Len(buffer)))))))

RECURSIVE Digits(_)
\* the decimal digits of a number, as character codes
Digits(n) == IF n < 10 THEN <<48 + n>> ELSE Digits(n \div 10) \o <<48 + (n % 10)>>

\* `Driver ${i + 1}`
DefaultName(i) == <<68, 114, 105, 118, 101, 114, 32>> \o Digits(i + 1)

\* --------------------------------------------------------- display strings
\* types[code] || 'Unknown' over an array of names
Lookup(names, code, fallback) ==
    IF code + 1 \in DOMAIN names THEN names[code + 1] ELSE fallback

getWeatherString(weather) ==
    Lookup(<<"Clear", "Light Cloud", "Overcast", "Light Rain", "Heavy Rain", "Storm">>,
           weather, "Unknown")

getSessionTypeString(type) ==
    Lookup(<<"Unknown", "FP1", "FP2", "FP3", "Short FP", "Q1", "Q2", "Q3", "Short Q",
             "OSQ", "R", "Sprint Shootout 1", "Sprint Shootout 2", "Sprint Shootout 3",
             "Short Sprint Shootout", "R2", "R3", "Time Trial">>, type, "Unknown")

getTyreCompoundString(compound) ==
    CASE compound = 16 -> "C5" [] compound = 17 -> "C4" [] compound = 18 -> "C3"
      [] compound = 19 -> "C2" [] compound = 20 -> "C1" [] compound = 21 -> "C0"
      [] compound = 7 -> "Inter" [] compound = 8 -> "Wet" [] compound = 9 -> "Dry"
      [] compound = 10 -> "Wet" [] compound = 11 -> "Super Soft"
      [] compound = 12 -> "Soft" [] compound = 13 -> "Medium"
      [] compound = 14 -> "Hard" [] compound = 15 -> "Wet"
      [] OTHER -> "Unknown"

getPitStatusString(status) == Lookup(<<"None", "Pitting", "In Pit">>, status, "Unknown")

getDriverStatusString(status) ==
    Lookup(<<"In Garage", "Flying Lap", "In Lap", "Out Lap", "On Track">>,
           status, "Unknown")

getERSModeString(mode) ==
    Lookup(<<"None", "Medium", "Hotlap", "Overtake">>, mode, "Unknown")

getFlagString(flag) ==
    CASE flag = -1 -> "Invalid" [] flag = 0 -> "None" [] flag = 1 -> "Green"
      [] flag = 2 -> "Blue" [] flag = 3 -> "Yellow" [] flag = 4 -> "Red"
      [] OTHER -> "None"

\* formatTime: '--:--' or minutes, seconds and milliseconds of the lap time
formatTime(milliseconds) ==
    IF \/ milliseconds.hi = 0 /\ milliseconds.lo = 0
       \/ milliseconds.hi >= 32768
       \/ milliseconds.hi * 65536 + milliseconds.lo > 999999999
    THEN [text |-> "--:--", minutes |-> 0, seconds |-> 0, ms |-> 0]
    ELSE LET value == milliseconds.hi * 65536 + milliseconds.lo
         IN  [text |-> "m:ss.mmm", minutes |-> value \div 60000,
              seconds |-> (value % 60000) \div 1000, ms |-> value % 1000]

\* Number.prototype.toFixed of a float, not evaluated: the float word, what it
\* was scaled by and the number of decimals
toFixed(float, scaling, decimals) ==
    [float |-> float, scaling |-> scaling, decimals |-> decimals]

\* Math.round of the mean of four non-negative integers
RoundedMean(a, b, c, d) == (a + b + c + d + 2) \div 4

\* ---------------------------------------------------------------- objects
\* A JavaScript object is the function from its property names to their
\* values; {} has no property.
EmptyObject == [k \in {} |-> 0]

\* obj.a = x; obj.b = y; ... : the properties of upd set on obj
Assign(obj, upd) ==
    [k \in DOMAIN obj \cup DOMAIN upd |-> IF k \in DOMAIN upd THEN upd[k] ELSE obj[k]]

\* null, for a header
NullHeader == [null |-> TRUE]

\* a header that also rejects the formats the handler does not support
parseHeaderSupportedOnly(buffer) ==
    IF Len(buffer) < HeaderSize \/ LEValue(buffer, 0, 2) \notin SupportedFormats
    THEN NullHeader
    ELSE [packetFormat |-> LEValue(buffer, 0, 2), packetId |-> buffer[7],
          playerCarIndex |-> buffer[28]]

\* parseHeader.  The catch returns null when a read is outside the buffer.
parseHeader(buffer) ==
    IF Len(buffer) < HeaderSize THEN NullHeader
    ELSE IF ~ InRange(buffer, 0, 2) \/ ~ InRange(buffer, 7, 8)
            \/ ~ InRange(buffer, 23, 4) \/ ~ InRange(buffer, 28, 1)
    THEN NullHeader
    ELSE [packetFormat |-> LEValue(buffer, 0, 2),
          gameYear |-> buffer[3],
          gameMajorVersion |-> buffer[4],
          gameMinorVersion |-> buffer[5],
          packetVersion |-> buffer[6],
          packetId |-> buffer[7],
          sessionUID |-> readBigUInt64LE(buffer, 7),
          sessionTime |-> readFloatLE(buffer, 15),
          frameIdentifier |-> readUInt32LE(buffer, 19),
          overallFrameIdentifier |-> readUInt32LE(buffer, 23),
          playerCarIndex |-> buffer[28],
          secondaryPlayerCarIndex |-> buffer[29]]

\* ----------------------------------------------------------- body decoders
\* a loop that stops when the record ends at the end of the buffer
DecodedShortOfEnd(buffer, count, base, stride) ==
    {i \in 0..(count - 1) : base + stride * i + stride < Len(buffer)}

\* The car records a loop decodes: it stops at the first record that would
\* end outside the buffer, and record offsets only grow.
Decoded(buffer, count, base, stride) ==
    {i \in 0..(count - 1) : base + stride * i + stride <= Len(buffer)}

\* drivers.get(i).name = ...; and the other four assignments, for the record at off
ParticipantData(buffer, off, i, header) ==
    [name |-> IF safeReadString(buffer, off + 7, NameLen) = <<>>
              THEN DefaultName(i)
              ELSE safeReadString(buffer, off + 7, NameLen),
     raceNumber |-> safeReadUInt8(buffer, off + 5),
     teamId |-> safeReadUInt8(buffer, off + 3),
     isPlayer |-> (i = header.playerCarIndex),
     isAI |-> (safeReadUInt8(buffer, off) = 1)]

\* a decoder that rebuilds the table from the cars of the packet
parseParticipantsReplacing(drv, buffer) ==
    IF parseHeader(buffer) = NullHeader THEN drv
    ELSE IF Len(buffer) < ParticipantsMinSize THEN drv
    ELSE LET actualCars == Min(safeReadUInt8(buffer, 29), MaxCars)
             cars == Decoded(buffer, actualCars, 30, ParticipantStride)
         IN  [i \in cars |->
                 Assign(IF i \in DOMAIN drv THEN drv[i] ELSE EmptyObject,
                        ParticipantData(buffer, 30 + ParticipantStride * i, i,
                                        parseHeader(buffer)))]

\* parseParticipants: the table after the packet
parseParticipants(drv, buffer) ==
    IF parseHeader(buffer) = NullHeader THEN drv
    ELSE IF Len(buffer) < ParticipantsMinSize THEN drv
    ELSE LET actualCars == Min(safeReadUInt8(buffer, 29), MaxCars)
             cars == Decoded(buffer, actualCars, 30, ParticipantStride)
         IN  [i \in DOMAIN drv \cup cars |->
                 IF i \in cars
                 THEN Assign(IF i \in DOMAIN drv THEN drv[i] ELSE EmptyObject,
                             ParticipantData(buffer, 30 + ParticipantStride * i, i,
                                             parseHeader(buffer)))
                 ELSE drv[i]]

\* parseSession: sessionInfo after the packet
parseSession(info, buffer) ==
    IF parseHeader(buffer) = NullHeader THEN info
    ELSE IF Len(buffer) < SessionMinSize THEN info
    ELSE Assign(info,
                [weather |-> getWeatherString(safeReadUInt8(buffer, 29)),
                 trackTemp |-> readInt8(buffer, 30),
                 airTemp |-> readInt8(buffer, 31),
                 sessionType |-> getSessionTypeString(safeReadUInt8(buffer, 35)),
                 totalLaps |-> safeReadUInt8(buffer, 32),
                 trackId |-> readInt8(buffer, 36)])

\* gear === -1 ? 'R' : gear === 0 ? 'N' : gear; a number is kept as its
\* decimal text so that the field has one type
GearString(gear) ==
    IF gear = -1 THEN "R" ELSE IF gear = 0 THEN "N" ELSE ToString(gear)

\* the object assigned to driver.telemetry for the record at off
CarTelemetryData(buffer, off) ==
    [speed |-> safeReadUInt16LE(buffer, off),
     throttle |-> toFixed(safeReadFloatLE(buffer, off + 2), "*100", 1),
     brake |-> toFixed(safeReadFloatLE(buffer, off + 10), "*100", 1),
     gear |-> GearString(readInt8(buffer, off + 15)),
     engineRPM |-> safeReadUInt16LE(buffer, off + 16),
     drs |-> IF safeReadUInt8(buffer, off + 18) = 1 THEN "ON" ELSE "OFF",
     engineTemp |-> safeReadUInt16LE(buffer, off + 38),
     tyreTemp |-> RoundedMean(safeReadUInt8(buffer, off + 30),
                              safeReadUInt8(buffer, off + 31),
                              safeReadUInt8(buffer, off + 32),
                              safeReadUInt8(buffer, off + 33)),
     brakeTemp |-> RoundedMean(safeReadUInt16LE(buffer, off + 22),
                               safeReadUInt16LE(buffer, off + 24),
                               safeReadUInt16LE(buffer, off + 26),
                               safeReadUInt16LE(buffer, off + 28))]

\* a decoder that writes the records a short packet still holds
parseCarTelemetryUnchecked(drv, buffer) ==
    [i \in DOMAIN drv |->
        IF i \in Decoded(buffer, MaxCars, HeaderSize, CarTelemetryStride)
        THEN Assign(drv[i], [telemetry |->
                 CarTelemetryData(buffer, HeaderSize + CarTelemetryStride * i)])
        ELSE drv[i]]

\* parseCarTelemetry: the table after the packet; a record is stored only
\* if (drivers.has(i))
parseCarTelemetry(drv, buffer) ==
    IF parseHeader(buffer) = NullHeader THEN drv
    ELSE IF Len(buffer) < CarTelemetryMinSize THEN drv
    ELSE [i \in DOMAIN drv |->
             IF i \in Decoded(buffer, MaxCars, HeaderSize, CarTelemetryStride)
             THEN Assign(drv[i], [telemetry |->
                      CarTelemetryData(buffer, HeaderSize + CarTelemetryStride * i)])
             ELSE drv[i]]

\* the object assigned to driver.lapData for the record at off
LapData(buffer, off) ==
    [position |-> safeReadUInt8(buffer, off + 32),
     currentLap |-> safeReadUInt8(buffer, off + 33),
     lastLapTime |-> formatTime(readUInt32LE(buffer, off)),
     currentLapTime |-> formatTime(readUInt32LE(buffer, off + 4)),
     pitStatus |-> getPitStatusString(safeReadUInt8(buffer, off + 34)),
     penalties |-> safeReadUInt8(buffer, off + 38),
     warnings |-> safeReadUInt8(buffer, off + 39),
     driverStatus |-> getDriverStatusString(safeReadUInt8(buffer, off + 44))]

\* parseLapData: the table after the packet
parseLapData(drv, buffer) ==
    IF parseHeader(buffer) = NullHeader THEN drv
    ELSE IF Len(buffer) < LapDataMinSize THEN drv
    ELSE [i \in DOMAIN drv |->
             IF i \in Decoded(buffer, MaxCars, HeaderSize, LapDataStride)
             THEN Assign(drv[i], [lapData |->
                      LapData(buffer, HeaderSize + LapDataStride * i)])
             ELSE drv[i]]

\* the object assigned to driver.carStatus for the record at off
CarStatusData(buffer, off) ==
    [fuel |-> toFixed(safeReadFloatLE(buffer, off + 5), "", 2),
     fuelLaps |-> toFixed(safeReadFloatLE(buffer, off + 13), "", 1),
     tyreCompound |-> getTyreCompoundString(safeReadUInt8(buffer, off + 25)),
     tyreAge |-> safeReadUInt8(buffer, off + 27),
     ersEnergy |-> toFixed(safeReadFloatLE(buffer, off + 37), "/4000000*100", 1),
     ersMode |-> getERSModeString(safeReadUInt8(buffer, off + 41)),
     flags |-> getFlagString(readInt8(buffer, off + 28))]

\* a decoder that replaces the whole slot by the car status
parseCarStatusReplacingSlot(drv, buffer) ==
    IF parseHeader(buffer) = NullHeader THEN drv
    ELSE IF Len(buffer) < CarStatusMinSize THEN drv
    ELSE [i \in DOMAIN drv |->
             IF i \in Decoded(buffer, MaxCars, HeaderSize, CarStatusStride)
             THEN [k \in {"carStatus"} |->
                      CarStatusData(buffer, HeaderSize + CarStatusStride * i)]
             ELSE drv[i]]

\* parseCarStatus: the table after the packet
parseCarStatus(drv, buffer) ==
    IF parseHeader(buffer) = NullHeader THEN drv
    ELSE IF Len(buffer) < CarStatusMinSize THEN drv
    ELSE [i \in DOMAIN drv |->
             IF i \in Decoded(buffer, MaxCars, HeaderSize, CarStatusStride)
             THEN Assign(drv[i], [carStatus |->
                      CarStatusData(buffer, HeaderSize + CarStatusStride * i)])
             ELSE drv[i]]

\* The reads of one record, as <<offset in the record, width>>
ParticipantReads ==
    {<<0, 1>>, <<1, 1>>, <<2, 1>>, <<3, 1>>, <<4, 1>>, <<5, 1>>, <<6, 1>>,
     <<7, 48>>, <<55, 1>>, <<56, 1>>, <<57, 1>>}
CarTelemetryReads ==
    {<<0, 2>>, <<2, 4>>, <<6, 4>>, <<10, 4>>, <<14, 1>>, <<15, 1>>, <<16, 2>>,
     <<18, 1>>, <<22, 2>>, <<24, 2>>, <<26, 2>>, <<28, 2>>, <<30, 1>>,
     <<31, 1>>, <<32, 1>>, <<33, 1>>, <<38, 2>>}
LapDataReads ==
    {<<0, 4>>, <<4, 4>>, <<32, 1>>, <<33, 1>>, <<34, 1>>, <<38, 1>>, <<39, 1>>,
     <<44, 1>>}
CarStatusReads ==
    {<<5, 4>>, <<9, 4>>, <<13, 4>>, <<25, 1>>, <<27, 1>>, <<28, 1>>, <<37, 4>>,
     <<41, 1>>}

\* ------------------------------------------------------- sample datagrams
Zeros(n) == [i \in 1..n |-> 0]

\* The 29 bytes of a packet header: game 25 version 1.0, packet version 1,
\* session UID, times and frame numbers 0, no second player
Envelope(format, id, player) ==
    LEBytes(format, 2) \o <<25, 1, 0, 1, id>> \o Zeros(20) \o <<player, 255>>

\* A datagram of the given length: the envelope, then a body whose byte at
\* offset q is (seed + q) mod 256
MakeDatagram(format, id, player, seed, length) ==
    Slice(Envelope(format, id, player)
            \o [i \in 1..(Max(length, HeaderSize) - HeaderSize) |->
                   (seed + HeaderSize - 1 + i) % 256],
          0, length)

\* The seeds make the gear of car 0 (offset 44) -1, 0 and 17, and the number
\* of active cars (offset 29) 240, 241 and 2
Seeds == {211, 212, 229}

\* the packet ids that have a body decoder
BodyIds == {1, 2, 4, 6, 7}

\* the minimum size its decoder asks of a packet
MinSize(id) ==
    CASE id = 1 -> SessionMinSize [] id = 2 -> LapDataMinSize
      [] id = 4 -> ParticipantsMinSize [] id = 6 -> CarTelemetryMinSize
      [] id = 7 -> CarStatusMinSize [] OTHER -> MotionSize

\* buf with the bytes given written at offset off
Overlay(buf, off, bytes) ==
    [q \in DOMAIN buf |->
        IF q > off /\ q <= off + Len(bytes) THEN bytes[q - off] ELSE buf[q]]

\* A Participants packet of two cars: the name of car 0 is " \tA\0B " padded
\* with null bytes, the name of car 1 is two spaces and null bytes
ParticipantsNamed ==
    Overlay(Overlay(MakeDatagram(2025, 4, 0, 229, ParticipantsMinSize),
                    37, <<32, 9, 65, 0, 66, 32>> \o Zeros(NameLen - 6)),
            37 + ParticipantStride, <<32, 32>> \o Zeros(NameLen - 2))

\* Words of a session time: 1.5, -0, the least subnormal, +Infinity, and four
\* NaN words (quiet, quiet with a payload, signalling, negative)
SessionTimes ==
    {<<0, 0, 192, 63>>, <<0, 0, 0, 128>>, <<1, 0, 0, 0>>, <<0, 0, 128, 127>>,
     <<0, 0, 192, 127>>, <<1, 0, 192, 127>>, <<1, 0, 128, 127>>,
     <<0, 0, 192, 255>>}

\* Motion packets of 29 bytes whose session UID, frame numbers and second
\* player are not 0, one for each session time
HeaderEnvelopes ==
    {Overlay(Envelope(2025, 0, 3), 7,
             <<1, 2, 3, 4, 5, 6, 7, 255>> \o time \o <<1, 2, 3, 4>>
                 \o <<255, 255, 255, 254>>) : time \in SessionTimes}

DecoderDatagrams ==
    {MakeDatagram(2025, id, 0, seed, MinSize(id)) : id \in BodyIds, seed \in Seeds}
    \cup {MakeDatagram(2025, 4, 1, seed, ParticipantsMinSize) : seed \in Seeds}
    \cup {MakeDatagram(2025, id, 0, 211, MinSize(id) - 1) : id \in BodyIds}
    \cup {MakeDatagram(2025, 6, 0, 211, HeaderSize),
          MakeDatagram(2025, 0, 0, 211, MotionSize),
          MakeDatagram(2025, 6, 0, 211, HeaderSize - 1),
          MakeDatagram(2023, 6, 0, 211, HeaderSize - 1),
          MakeDatagram(2025, 4, 2, 211, ParticipantsMinSize),
          ParticipantsNamed,
          <<>>}
    \cup HeaderEnvelopes
    \cup {MakeDatagram(format, id, 0, 211, MinSize(id)) :
              format \in {2024, 2023}, id \in {4, 6}}

\* ------------------------------------------------------------ the process
DecoderInit ==
    /\ drivers = EmptyObject
    /\ sessionInfo = [trackName |-> "", sessionType |-> "", weather |-> "",
                      trackTemp |-> 0, airTemp |-> 0, totalLaps |-> 0]
    /\ decoderPacketCount = 0
    /\ errorCount = 0
    /\ lastMsg = <<>>

\* a handler that lets every format through
formatNeverRejected(header) == FALSE

\* if (header.packetFormat !== 2025 && header.packetFormat !== 2024)
formatRejected(header) == header.packetFormat # 2025 /\ header.packetFormat # 2024

\* server.on('message'): the handler of telemetry.js.  No read of a body
\* decoder is outside the buffer once its size check has passed, so neither
\* catch is entered.
DecoderMessage(msg) ==
    /\ decoderPacketCount < MaxDecoded
    /\ UNCHANGED <<recVars, repVars, svcVars>>
    /\ decoderPacketCount' = decoderPacketCount + 1
    /\ lastMsg' = msg
    /\ LET header == parseHeader(msg)
       IN  IF Len(msg) < HeaderSize \/ header = NullHeader
           THEN /\ errorCount' = errorCount + 1
                /\ UNCHANGED <<drivers, sessionInfo>>
           ELSE IF formatRejected(header)
           THEN /\ errorCount' = errorCount + 1
                /\ UNCHANGED <<drivers, sessionInfo>>
           ELSE /\ errorCount' = errorCount
                /\ drivers' =
                     CASE header.packetId = PACKET_IDS.PARTICIPANTS ->
                            parseParticipants(drivers, msg)
                       [] header.packetId = PACKET_IDS.LAP_DATA ->
                            parseLapData(drivers, msg)
                       [] header.packetId = PACKET_IDS.CAR_TELEMETRY ->
                            parseCarTelemetry(drivers, msg)
                       [] header.packetId = PACKET_IDS.CAR_STATUS ->
                            parseCarStatus(drivers, msg)
                       [] OTHER -> drivers
                /\ sessionInfo' =
                     IF header.packetId = PACKET_IDS.SESSION
                     THEN parseSession(sessionInfo, msg)
                     ELSE sessionInfo

DecoderNext == \E msg \in DecoderDatagrams : DecoderMessage(msg)

\* ======================================== test-connection.js: F1UDPService
MaxSockets == 2     \* sockets one service instance creates in one run
MaxHandled == 2     \* datagrams delivered to the service in one run

\* Date.now(): the clock of the service is not modelled, every reading is this one
DateNow == 0

PACKET_TYPES ==
    <<"Motion", "Session", "LapData", "Event", "Participants", "CarSetups",
      "CarTelemetry", "CarStatus", "FinalClassification", "LobbyInfo", "CarDamage",
      "SessionHistory", "TyreSets", "MotionEx", "TimeTrial">>

\* `packet:${packetTypeName.toLowerCase()}`
PacketEvent(packetTypeName) ==
    CASE packetTypeName = "Motion" -> "packet:motion"
      [] packetTypeName = "Session" -> "packet:session"
      [] packetTypeName = "LapData" -> "packet:lapdata"
      [] packetTypeName = "Event" -> "packet:event"
      [] packetTypeName = "Participants" -> "packet:participants"
      [] packetTypeName = "CarSetups" -> "packet:carsetups"
      [] packetTypeName = "CarTelemetry" -> "packet:cartelemetry"
      [] packetTypeName = "CarStatus" -> "packet:carstatus"
      [] packetTypeName = "FinalClassification" -> "packet:finalclassification"
      [] packetTypeName = "LobbyInfo" -> "packet:lobbyinfo"
      [] packetTypeName = "CarDamage" -> "packet:cardamage"
      [] packetTypeName = "SessionHistory" -> "packet:sessionhistory"
      [] packetTypeName = "TyreSets" -> "packet:tyresets"
      [] packetTypeName = "MotionEx" -> "packet:motionex"
      [] packetTypeName = "TimeTrial" -> "packet:timetrial"
      [] OTHER -> "packet:unknown"

\* _parsePacketHeader: what it returns.  It reads the same twelve fields as
\* parseHeader of telemetry.js, inside the same try.
parsePacketHeader(buffer) ==
    IF Len(buffer) < HeaderSize THEN NullHeader
    ELSE IF ~ InRange(buffer, 0, 2) \/ ~ InRange(buffer, 7, 8)
            \/ ~ InRange(buffer, 23, 4) \/ ~ InRange(buffer, 28, 1)
    THEN NullHeader
    ELSE [packetFormat |-> LEValue(buffer, 0, 2),
          gameYear |-> buffer[3],
          gameMajorVersion |-> buffer[4],
          gameMinorVersion |-> buffer[5],
          packetVersion |-> buffer[6],
          packetId |-> buffer[7],
          sessionUID |-> readBigUInt64LE(buffer, 7),
          sessionTime |-> readFloatLE(buffer, 15),
          frameIdentifier |-> readUInt32LE(buffer, 19),
          overallFrameIdentifier |-> readUInt32LE(buffer, 23),
          playerCarIndex |-> buffer[28],
          secondaryPlayerCarIndex |-> buffer[29]]

\* _parsePacketHeader: what it emits, if (header.packetFormat !== 2025)
headerWarnings(buffer) ==
    IF parsePacketHeader(buffer) # NullHeader
       /\ parsePacketHeader(buffer).packetFormat # 2025
    THEN <<"warning">> ELSE <<>>

\* the datagrams given to the service: headers alone, a buffer one byte
\* short of a header and an empty one; packet id 15 has no name
ServiceDatagrams ==
    {MakeDatagram(format, 6, 0, 211, HeaderSize) : format \in {2025, 2024, 2023}}
    \cup {MakeDatagram(2025, 15, 0, 211, HeaderSize),
          MakeDatagram(2025, 6, 0, 211, HeaderSize - 1), <<>>}

ServiceInit ==
    /\ forwardingEnabled \in BOOLEAN
    /\ socket = NULL
    /\ forwardSocket = FALSE
    /\ isRunning = FALSE
    /\ stats = [packetsReceived |-> 0, bytesReceived |-> 0, sessionStartTime |-> NULL,
                lastPacketTime |-> NULL, packetsPerSecond |-> 0,
                packetCounts |-> EmptyObject]
    /\ packetRateInterval = NULL
    /\ packetRateCounter = 0
    /\ sockets = <<>>
    /\ intervals = <<>>
    /\ emitted = <<>>
    /\ forwarded = <<>>
    /\ thrown = FALSE
    /\ handled = 0
    /\ svcMsg = <<>>
    /\ svcCrashed = FALSE
    /\ sinceBoundary = 0
    /\ sinceMark = 0
    /\ windowSum = 0

\* the variables a call or a callback can leave as they are
svcState ==
    <<socket, forwardSocket, isRunning, stats, packetRateCounter,
      packetRateInterval, sockets, intervals>>

\* start(): refused only when isRunning, which the 'listening' callback sets
start ==
    /\ ~ svcCrashed
    /\ isRunning \/ Len(sockets) < MaxSockets
    /\ UNCHANGED <<recVars, repVars, decVars>>
    /\ UNCHANGED rateHistory
    /\ UNCHANGED <<forwardingEnabled, handled, svcMsg, svcCrashed>>
    /\ emitted' = <<>>
    /\ forwarded' = <<>>
    /\ IF isRunning
       THEN /\ thrown' = TRUE
            /\ UNCHANGED svcState
       ELSE /\ thrown' = FALSE
            /\ sockets' = Append(sockets, "binding")
            /\ socket' = Len(sockets) + 1
            /\ forwardSocket' = (forwardingEnabled \/ forwardSocket)
            /\ UNCHANGED <<isRunning, stats, packetRateCounter, packetRateInterval,
                           intervals>>

\* the port is free for socket s: no other socket of the process holds it
PortFree(s) ==
    \A t \in DOMAIN sockets : t # s => sockets[t] \notin {"listening", "closing"}

\* socket.on('listening') of socket s.  this.socket may by now be null, and
\* this.socket.address() throws, or a later socket that is not bound, and it
\* throws or not (addressThrows); setRecvBufferSize may throw as well, which
\* is caught (bufferSet).
Listening(s, addressThrows, bufferSet) ==
    /\ ~ svcCrashed
    /\ sockets[s] = "binding"
    /\ PortFree(s)
    /\ addressThrows => socket # s
    /\ socket = NULL => addressThrows
    /\ UNCHANGED <<recVars, repVars, decVars>>
    /\ UNCHANGED rateHistory
    /\ UNCHANGED <<forwardingEnabled, handled, svcMsg, socket, forwardSocket,
                   packetRateCounter>>
    /\ sockets' = [sockets EXCEPT ![s] = "listening"]
    /\ forwarded' = <<>>
    /\ IF addressThrows
       THEN /\ thrown' = TRUE
            /\ svcCrashed' = TRUE
            /\ emitted' = <<>>
            /\ UNCHANGED <<isRunning, stats, packetRateInterval, intervals>>
       ELSE /\ thrown' = FALSE
            /\ svcCrashed' = FALSE
            /\ isRunning' = TRUE
            /\ stats' = [stats EXCEPT !.sessionStartTime = DateNow]
            /\ intervals' = Append(intervals, TRUE)
            /\ packetRateInterval' = Len(intervals) + 1
            /\ emitted' = (IF bufferSet THEN <<>> ELSE <<"warning">>) \o <<"listening">>

\* socket.on('error') of socket s: the bind failed
BindError(s) ==
    /\ ~ svcCrashed
    /\ sockets[s] = "binding"
    /\ UNCHANGED <<recVars, repVars, decVars>>
    /\ UNCHANGED rateHistory
    /\ UNCHANGED <<forwardingEnabled, handled, svcMsg, svcCrashed, socket,
                   forwardSocket, isRunning, stats, packetRateCounter,
                   packetRateInterval, intervals>>
    /\ sockets' = [sockets EXCEPT ![s] = "failed"]
    /\ emitted' = <<"error">>
    /\ forwarded' = <<>>
    /\ thrown' = FALSE

\* _stopPacketRateMonitor: the timers after it
stopPacketRateMonitor ==
    IF packetRateInterval # NULL
    THEN [intervals EXCEPT ![packetRateInterval] = FALSE]
    ELSE intervals

\* stop(): refused when not running; close() of a socket already closed
\* throws inside the promise, after the monitor and the forward socket are gone
stop ==
    /\ ~ svcCrashed
    /\ UNCHANGED <<recVars, repVars, decVars>>
    /\ UNCHANGED rateHistory
    /\ UNCHANGED <<forwardingEnabled, handled, svcMsg, svcCrashed, socket,
                   isRunning, stats, packetRateCounter>>
    /\ emitted' = <<>>
    /\ forwarded' = <<>>
    /\ IF ~ isRunning
       THEN /\ thrown' = TRUE
            /\ UNCHANGED <<forwardSocket, packetRateInterval, sockets, intervals>>
       ELSE /\ intervals' = stopPacketRateMonitor
            /\ packetRateInterval' = NULL
            /\ forwardSocket' = FALSE
            /\ IF sockets[socket] \in {"closing", "closed"}
               THEN /\ thrown' = TRUE
                    /\ UNCHANGED sockets
               ELSE /\ thrown' = FALSE
                    /\ sockets' = [sockets EXCEPT ![socket] = "closing"]

\* the callback of socket.close
Closed(s) ==
    /\ ~ svcCrashed
    /\ sockets[s] = "closing"
    /\ UNCHANGED <<recVars, repVars, decVars>>
    /\ UNCHANGED rateHistory
    /\ UNCHANGED <<forwardingEnabled, handled, svcMsg, svcCrashed,
                   forwardSocket, stats, packetRateCounter, packetRateInterval,
                   intervals>>
    /\ sockets' = [sockets EXCEPT ![s] = "closed"]
    /\ isRunning' = FALSE
    /\ socket' = NULL
    /\ emitted' = <<"stopped">>
    /\ forwarded' = <<>>
    /\ thrown' = FALSE

\* PACKET_TYPES[header.packetId] || 'Unknown'
PacketTypeName(packetId) == Lookup(PACKET_TYPES, packetId, "Unknown")

\* (this.stats.packetCounts[name] || 0) + 1
CountOf(counts, name) == IF name \in DOMAIN counts THEN counts[name] ELSE 0

\* a dispatcher that goes on after 'invalidPacket'
packetEventsAfterInvalid(header) ==
    IF header = NullHeader THEN <<"invalidPacket", "packet", "packet:unknown">>
    ELSE <<"packet", PacketEvent(PacketTypeName(header.packetId))>>

\* a dispatcher that emits the event of the kind before the generic one
packetEventsKindFirst(header) ==
    IF header = NullHeader THEN <<"invalidPacket">>
    ELSE <<PacketEvent(PacketTypeName(header.packetId)), "packet">>

\* the events _handleMessage emits itself: 'invalidPacket' and nothing more,
\* or 'packet' and then the event of the kind
packetEvents(header) ==
    IF header = NullHeader THEN <<"invalidPacket">>
    ELSE <<"packet", PacketEvent(PacketTypeName(header.packetId))>>

\* _handleMessage, called by the 'message' listener of a listening socket
handleMessage(s, msg) ==
    /\ ~ svcCrashed
    /\ sockets[s] = "listening"
    /\ handled < MaxHandled
    /\ UNCHANGED <<recVars, repVars, decVars>>
    /\ UNCHANGED <<forwardingEnabled, svcCrashed, socket, forwardSocket, isRunning,
                   packetRateInterval, sockets, intervals>>
    /\ handled' = handled + 1
    /\ svcMsg' = msg
    /\ thrown' = FALSE
    /\ packetRateCounter' = packetRateCounter + 1
    /\ sinceBoundary' = sinceBoundary + 1
    /\ sinceMark' = sinceMark + 1
    /\ UNCHANGED windowSum
    /\ LET header == parsePacketHeader(msg)
           counted == [stats EXCEPT !.packetsReceived = @ + 1,
                                    !.bytesReceived = @ + Len(msg),
                                    !.lastPacketTime = DateNow]
       IN  IF header = NullHeader
           THEN /\ stats' = counted
                /\ emitted' = headerWarnings(msg) \o packetEvents(header)
                /\ forwarded' = <<>>
           ELSE /\ stats' =
                     [counted EXCEPT !.packetCounts =
                         Assign(@, [k \in {PacketTypeName(header.packetId)} |->
                                       CountOf(@, k) + 1])]
                /\ forwarded' =
                     IF forwardingEnabled /\ forwardSocket THEN <<msg>> ELSE <<>>
                /\ emitted' = headerWarnings(msg) \o packetEvents(header)

\* a monitor that publishes the window counter and does not reset it
RateTickKeepingCounter(t) ==
    /\ ~ svcCrashed
    /\ intervals[t]
    /\ UNCHANGED <<recVars, repVars, decVars>>
    /\ UNCHANGED <<forwardingEnabled, handled, svcMsg, svcCrashed, socket,
                   forwardSocket, isRunning, packetRateInterval, sockets, intervals>>
    /\ stats' = [stats EXCEPT !.packetsPerSecond = packetRateCounter]
    /\ UNCHANGED packetRateCounter
    /\ sinceBoundary' = 0
    /\ sinceMark' = 0
    /\ windowSum' = windowSum + packetRateCounter
    /\ emitted' = <<"stats">>
    /\ forwarded' = <<>>
    /\ thrown' = FALSE

\* the setInterval callback of _startPacketRateMonitor: a window of timer t ends
RateTick(t) ==
    /\ ~ svcCrashed
    /\ intervals[t]
    /\ UNCHANGED <<recVars, repVars, decVars>>
    /\ UNCHANGED <<forwardingEnabled, handled, svcMsg, svcCrashed, socket,
                   forwardSocket, isRunning, packetRateInterval, sockets, intervals>>
    /\ stats' = [stats EXCEPT !.packetsPerSecond = packetRateCounter]
    /\ packetRateCounter' = 0
    /\ sinceBoundary' = 0
    /\ sinceMark' = 0
    /\ windowSum' = windowSum + packetRateCounter
    /\ emitted' = <<"stats">>
    /\ forwarded' = <<>>
    /\ thrown' = FALSE

resetStatistics ==
    /\ ~ svcCrashed
    /\ UNCHANGED <<recVars, repVars, decVars>>
    /\ UNCHANGED <<forwardingEnabled, handled, svcMsg, svcCrashed, socket,
                   forwardSocket, isRunning, packetRateInterval, sockets, intervals>>
    /\ stats' = [packetsReceived |-> 0, bytesReceived |-> 0,
                 sessionStartTime |-> DateNow, lastPacketTime |-> NULL,
                 packetsPerSecond |-> 0, packetCounts |-> EmptyObject]
    /\ packetRateCounter' = 0
    /\ UNCHANGED sinceBoundary
    /\ sinceMark' = 0
    /\ windowSum' = 0
    /\ emitted' = <<"statsReset">>
    /\ forwarded' = <<>>
    /\ thrown' = FALSE

ServiceNext ==
    \/ start
    \/ stop
    \/ resetStatistics
    \/ \E s \in DOMAIN sockets :
          \E addressThrows \in BOOLEAN : \E bufferSet \in BOOLEAN :
              Listening(s, addressThrows, bufferSet)
    \/ \E s \in DOMAIN sockets : BindError(s)
    \/ \E s \in DOMAIN sockets : Closed(s)
    \/ \E s \in DOMAIN sockets : \E msg \in ServiceDatagrams : handleMessage(s, msg)
    \/ \E t \in DOMAIN intervals : RateTick(t)

\* ========================================================= specifications
\* The recorder process, no replay running beside it
Init ==
    /\ RecInit
    /\ ReplayIdle
    /\ DecoderInit
    /\ ServiceInit
    /\ forwardingEnabled = FALSE

Spec == Init /\ [][RecNext]_vars

\* The replay process, started on a capture file; the recorder does not run
ReplayStart ==
    /\ RecInit
    /\ ReplayInit
    /\ DecoderInit
    /\ ServiceInit
    /\ forwardingEnabled = FALSE

ReplaySpec == ReplayStart /\ [][ReplayNext]_vars

\* The recorder process from a backlog of queued frames
BacklogStart ==
    /\ BacklogInit
    /\ ReplayIdle
    /\ DecoderInit
    /\ ServiceInit
    /\ forwardingEnabled = FALSE

BacklogSpec == BacklogStart /\ [][RecNext]_vars

\* The replay process on a well-formed file, when the event loop runs the
\* callbacks it has scheduled and time passes
ReplayLiveStart ==
    /\ RecInit
    /\ ReplayWellFormedInit
    /\ DecoderInit
    /\ ServiceInit
    /\ forwardingEnabled = FALSE

ReplayLiveSpec ==
    /\ ReplayLiveStart
    /\ [][ReplayNext]_vars
    /\ WF_vars(sendNextPacket)
    /\ WF_vars(ReplayTick)

\* The decoder process of telemetry.js
DecoderStart ==
    /\ RecInit
    /\ ReplayIdle
    /\ DecoderInit
    /\ ServiceInit
    /\ forwardingEnabled = FALSE

DecoderSpec == DecoderStart /\ [][DecoderNext]_vars

\* One F1UDPService instance, with or without forwarding
ServiceStart ==
    /\ RecInit
    /\ ReplayIdle
    /\ DecoderInit
    /\ ServiceInit

ServiceSpec == ServiceStart /\ [][ServiceNext]_vars


\* ================================================================ claims

\* C1 (as claimed): every datagram accepted while Recording is passed to
\* writeStream.write exactly once and in arrival order: while the recording is
\* open the frames submitted followed by the frames still queued are the frames
\* accepted, and once it is finished the frames submitted are the frames accepted.
C1_SubmittedExactlyOnce ==
    /\ currentState \in {"recording", "paused"} => submitted \o writeQueue = accepted
    /\ currentState = "finished" => submitted = accepted

\* C2 (as claimed): a start request in Recording, Paused or Finished leaves the
\* state, the capture file, the counters and the write queue unchanged and only
\* reports an error.
C2_StartOnlyFromIdle ==
    [][startNewRecording /\ currentState # "idle" =>
          /\ UNCHANGED <<currentState, currentTempFile, counters, writeQueue>>
          /\ console' = "already recording"]_vars

C4_DocumentedEdges ==
    [][/\ togglePause =>
             \/ currentState = "recording" /\ currentState' = "paused"
             \/ currentState = "paused" /\ currentState' = "recording"
             \/ currentState \in {"idle", "finished"} /\ currentState' = currentState
       /\ finishRecording =>
             \/ currentState \in {"recording", "paused"} /\ currentState' = "finished"
             \/ currentState \in {"idle", "finished"} /\ currentState' = currentState
      ]_vars

\* C4 witness: a recording was paused and resumed, and took a frame since
C4_Witness ==
    console = "resumed" /\ currentState = "recording" /\ writeQueue # <<>>

C6_NoAbandonedTempFile ==
    \A n \in DOMAIN tempDir : n = currentTempFile

\* C7 (as claimed): the first frame is sent at the start of the replay and its
\* timestamp is the epoch; every later frame is sent not before the time elapsed
\* since the first send reaches (timestamp - epoch) / speed.
C7_ReplayTiming ==
    /\ sent # <<>> => sent[1].at = replayStartTime /\ firstTimestamp = sent[1].timestamp
    /\ \A k \in 2..Len(sent) :
          (sent[k].at - sent[1].at) * speed >= sent[k].timestamp - sent[1].timestamp

\* C8: replaying a capture file the recorder wrote from N datagrams sends the
\* payloads of those datagrams, byte for byte, in the recorded order and each
\* once; it ends complete, having sent exactly N.
C8_RoundTrip ==
    fileBuffer = FileOf(recorded) =>
        /\ Len(sent) <= Len(recorded)
        /\ \A k \in DOMAIN sent : sent[k].data = recorded[k].msg
        /\ replayStatus # "error"
        /\ replayStatus = "complete" => Len(sent) = Len(recorded)

\* C8 witness: a replay of two or more frames with different payloads is complete
C8_Witness ==
    /\ fileBuffer = FileOf(recorded) /\ replayStatus = "complete"
    /\ Len(sent) >= 2 /\ sent[1].data # sent[2].data

RECURSIVE FrameOverrun(_, _)
\* a frame of buf at or after off has a length field that points past the end
FrameOverrun(buf, off) ==
    IF off + 12 > Len(buf) THEN FALSE
    ELSE LET size == LEValue(buf, off, 4)
         IN  IF off + 12 + size > Len(buf) THEN TRUE
             ELSE FrameOverrun(buf, off + 12 + size)

\* C9 (as claimed): on a capture file with a frame length that points past the
\* end of the file, replay never sends a payload shorter than its length field
\* says and never reports the replay complete.
C9_CorruptFileIsFatal ==
    FrameOverrun(fileBuffer, 0) =>
        /\ replayStatus # "complete"
        /\ \A k \in DOMAIN sent : Len(sent[k].data) = sent[k].size

\* C10: the target delay computed for a frame is (timestamp - epoch) / speed, a
\* function of the file and the multiplier alone; so at multiplier 2 it is exactly
\* half of what the code computes for the same frame at multiplier 1.
C10_TargetDelay ==
    \A k \in 2..Len(targetDelays) :
        LET originalDelay == recorded[k].t - recorded[1].t
        IN  /\ targetDelays[k] * speed = originalDelay * DelayScale
            /\ speed = 2 => 2 * targetDelays[k] = replayDelay(originalDelay, 1)

\* C10 witness: at multiplier 2 a delay was computed for a frame recorded an odd
\* number of milliseconds after the first
C10_Witness ==
    /\ speed = 2 /\ Len(targetDelays) >= 2
    /\ (recorded[2].t - recorded[1].t) % 2 = 1

\* a step of the decoder's message handler
DecoderHandles == decoderPacketCount' = decoderPacketCount + 1

\* the packet id and the packet format a datagram of 29 bytes or more carries
IdOf(msg) == msg[7]
FormatOf(msg) == LEValue(msg, 0, 2)

\* C11 (as claimed): a valid Car Telemetry datagram of 1352 bytes sets the
\* telemetry sub-record of every car slot 0..21 from the record of that slot
\* (speed is the u16 at 29 + 60 i, gear the i8 at 44 + 60 i shown as "R" for
\* -1 and "N" for 0), whatever the table holds before, also when no
\* Participants packet has been received.
C11_TelemetryOfEverySlot ==
    [][(/\ DecoderHandles
        /\ Len(lastMsg') = 1352
        /\ FormatOf(lastMsg') \in {2025, 2024}
        /\ IdOf(lastMsg') = 6)
       => \A i \in 0..21 :
             /\ i \in DOMAIN drivers'
             /\ "telemetry" \in DOMAIN drivers'[i]
             /\ drivers'[i].telemetry.speed = LEValue(lastMsg', 29 + 60 * i, 2)
             /\ drivers'[i].telemetry.gear = GearString(readInt8(lastMsg', 44 + 60 * i))]_vars

\* the minimum size the specification gives for the body of each kind
C12_MinimumSize(id) ==
    CASE id = 1 -> 644 [] id = 2 -> 1131 [] id = 4 -> 1306 [] id = 6 -> 1352
      [] id = 7 -> 1239 [] OTHER -> 0

\* a datagram with a valid header that is too short for its kind
C12_TooShort(msg) ==
    /\ Len(msg) >= 29
    /\ Len(msg) < C12_MinimumSize(IdOf(msg))

\* C12: no partial writes.  A datagram with a valid header whose length is
\* below the minimum size of its kind (Session 644, Lap Data 1131,
\* Participants 1306, Car Telemetry 1352, Car Status 1239) leaves the table of
\* drivers and sessionInfo exactly as they were.
C12_NoPartialWrites ==
    [][(DecoderHandles /\ C12_TooShort(lastMsg'))
       => (drivers' = drivers /\ sessionInfo' = sessionInfo)]_vars

\* a Car Telemetry packet one byte short has been handled when all 22 slots
\* exist
C12_Witness ==
    /\ decoderPacketCount = 2
    /\ C12_TooShort(lastMsg)
    /\ IdOf(lastMsg) = 6
    /\ Len(lastMsg) = 1351
    /\ DOMAIN drivers = 0..21

\* C13 (as claimed): the handling of a Car Telemetry datagram of at least 29
\* and less than 1352 bytes increments the error counter exactly once.
C13_ShortTelemetryCounted ==
    [][(/\ DecoderHandles
        /\ Len(lastMsg') >= 29
        /\ Len(lastMsg') < 1352
        /\ IdOf(lastMsg') = 6)
       => errorCount' = errorCount + 1]_vars

\* C14: header decoding returns null exactly when the buffer is shorter than
\* 29 bytes; a buffer of 29 bytes or more is decoded whatever its packetFormat,
\* by parseHeader of telemetry.js and by _parsePacketHeader of F1UDPService.
C14_HeaderFailsOnlyWhenShort ==
    /\ parseHeader(lastMsg) = NullHeader <=> Len(lastMsg) < 29
    /\ parsePacketHeader(lastMsg) = NullHeader <=> Len(lastMsg) < 29
    /\ Len(lastMsg) >= 29 =>
          /\ parseHeader(lastMsg).packetFormat = FormatOf(lastMsg)
          /\ parsePacketHeader(lastMsg).packetFormat = FormatOf(lastMsg)

\* a datagram of an unsupported format has been decoded, and so has one of 28 bytes
C14_Witness ==
    /\ decoderPacketCount = 2
    /\ Len(lastMsg) >= 29
    /\ FormatOf(lastMsg) = 2023
    /\ parseHeader(lastMsg).packetId = 6
    /\ parsePacketHeader(lastMsg).packetId = 6
    /\ errorCount = 2

\* a step of the service's _handleMessage
ServiceHandles == handled' = handled + 1

\* the events of a call other than warnings
PacketEventsOf(events) == SelectSeq(events, LAMBDA e : e # "warning")

\* C15: for a datagram whose header is invalid the dispatcher emits exactly
\* one 'invalidPacket' and stops: no per-kind counter changes, the datagram is
\* not forwarded, and neither 'packet' nor a 'packet:<kind>' event is emitted.
C15_InvalidPacketOnly ==
    [][(ServiceHandles /\ Len(svcMsg') < 29)
       => /\ emitted' = <<"invalidPacket">>
          /\ stats'.packetCounts = stats.packetCounts
          /\ forwarded' = <<>>]_vars

\* a datagram of 28 bytes has been handled by a service that forwards and
\* that had counted a packet of some kind before
C15_Witness ==
    /\ handled = 2
    /\ Len(svcMsg) = 28
    /\ forwardingEnabled /\ forwardSocket
    /\ DOMAIN stats.packetCounts # {}
    /\ emitted = <<"invalidPacket">>

\* C16: for every datagram with a valid header the dispatcher emits the
\* generic 'packet' event and the 'packet:<kind>' event of its kind, once each
\* and the generic one first; the events of one call are those of one
\* datagram.
C16_PacketThenKind ==
    [][(ServiceHandles /\ Len(svcMsg') >= 29)
       => PacketEventsOf(emitted') =
             <<"packet", PacketEvent(PacketTypeName(IdOf(svcMsg')))>>]_vars

\* a second datagram has been dispatched, a Car Telemetry packet or one of
\* an unknown kind
C16_Witness ==
    /\ handled = 2
    /\ emitted \in {<<"packet", "packet:cartelemetry">>, <<"packet", "packet:unknown">>}
    /\ stats.packetsReceived = 2

\* C17 (as claimed): the ingress service emits a 'warning' for a datagram
\* exactly when its packetFormat is neither 2025 nor 2024; the packet is
\* counted and its packet events are emitted all the same.
C17_WarningOnUnsupportedFormat ==
    [][(ServiceHandles /\ Len(svcMsg') >= 29)
       => /\ (\E k \in DOMAIN emitted' : emitted'[k] = "warning")
                <=> FormatOf(svcMsg') \notin {2025, 2024}
          /\ stats'.packetsReceived = stats.packetsReceived + 1
          /\ PacketEventsOf(emitted') =
                <<"packet", PacketEvent(PacketTypeName(IdOf(svcMsg')))>>]_vars

\* C18: the full decoder rejects a datagram whose packetFormat is neither
\* 2025 nor 2024 before any body decoding, whatever its packetId and length:
\* the table of drivers and sessionInfo are unchanged and the error counter
\* is incremented once.
C18_UnsupportedFormatRejected ==
    [][(/\ DecoderHandles
        /\ Len(lastMsg') >= 2
        /\ FormatOf(lastMsg') \notin {2025, 2024})
       => /\ drivers' = drivers
          /\ sessionInfo' = sessionInfo
          /\ errorCount' = errorCount + 1]_vars

\* a full-size Car Telemetry packet of format 2023 has been rejected when all
\* 22 slots exist
C18_Witness ==
    /\ decoderPacketCount = 2
    /\ Len(lastMsg) = 1352
    /\ FormatOf(lastMsg) = 2023
    /\ IdOf(lastMsg) = 6
    /\ errorCount = 1
    /\ DOMAIN drivers = 0..21

\* the service has been started and not stopped: a socket that start created
\* is binding or listening
C19_Started == \E s \in DOMAIN sockets : sockets[s] \in {"binding", "listening"}

\* C19 (as claimed): start() fails with an error whenever the service has
\* already been started and not stopped, also when the first start() has not
\* reached 'listening' yet, so that no second socket is created.
C19_StartRefusedWhenStarted ==
    [][(start /\ C19_Started) => (thrown' /\ sockets' = sockets)]_vars

\* C20 (as claimed): no datagram terminates a receiver.  For the capture
\* recorder: the handling of a datagram of any length, while Recording too,
\* ends without an uncaught error and the recorder goes on.
C20_DatagramNeverFatal ==
    [][arrived' = arrived + 1 => ~ crashed']_vars

\* C21: every driver name in the table, stored from a Participants datagram
\* of valid size, contains no null byte and has no white space at its start
\* or at its end.
C21_NamesStrippedAndTrimmed ==
    \A i \in DOMAIN drivers :
        LET name == drivers[i].name
        IN  /\ \A k \in DOMAIN name : name[k] # 0
            /\ name # <<>> =>
                  /\ name[1] \notin {9, 10, 11, 12, 13, 32}
                  /\ name[Len(name)] \notin {9, 10, 11, 12, 13, 32}

\* the packet with the padded names has been decoded: car 0 is "AB", car 1
\* has the default name "Driver 2"
C21_Witness ==
    /\ lastMsg = ParticipantsNamed
    /\ drivers[0].name = <<65, 66>>
    /\ drivers[1].name = <<68, 114, 105, 118, 101, 114, 32, 50>>

\* C23: the number of frames pending in the write queue stays below a bound
\* that does not depend on how many datagrams arrive before a write
\* completes.  The greatest length the arrivals of the model can produce is
\* MaxMsgs - 1 (the first frame is handed to the stream at once), so a bound
\* independent of the arrivals keeps the queue below it.
C23_QueueBounded ==
    Len(writeQueue) < MaxMsgs - 1

\* C24: a batch write that fails (on a stream that is still open) adds the
\* size of the batch to droppedPackets, leaves the state of the recorder as
\* it is, and the process goes on draining and accepting datagrams.
C24_FailedWriteKeepsRecording ==
    [][\A s \in DOMAIN streams :
          (WriteComplete(s, TRUE) /\ Head(streams[s].pending).cb
             /\ ~streams[s].ended)
              => /\ droppedPackets' = droppedPackets + Head(streams[s].pending).n
                 /\ currentState' = currentState
                 /\ ~crashed']_vars

\* a datagram is delivered to the handler
Delivered == arrived' = arrived + 1

\* C25: a datagram that arrives while the recorder is idle, paused or
\* finished enqueues no frame and changes none of packetCount, dataSize,
\* packetStats, lastPacketTime, maxGap, droppedPackets.
C25_IgnoredUnlessRecording ==
    [][(Delivered /\ currentState \in {"idle", "paused", "finished"})
          => UNCHANGED <<writeQueue, submitted, streams, accepted, packetCount,
                         dataSize, packetStats, lastPacketTime, maxGap,
                         droppedPackets, sessionStartTime>>]_vars

\* a recording that accepted one datagram is paused and a later datagram
\* was ignored
C25_Witness ==
    /\ currentState = "paused"
    /\ packetCount = 1
    /\ arrived = 2
    /\ lastPacketTime > 0
    /\ lastPacketTime < now

\* C26: a storage failure during an active recording ends the recording:
\* the recorder is finished after the failed write.
C26_StorageFailureFinishes ==
    [][\A s \in DOMAIN streams :
          (WriteComplete(s, TRUE) /\ currentState = "recording"
             /\ s = writeStream)
              => currentState' = "finished"]_vars

\* a window of the rate monitor ends
WindowBoundary == \E t \in DOMAIN intervals : RateTick(t)

\* between resets of the statistics, packetsReceived is the sum of the
\* window counts published plus the current window counter
PacketsReceivedIsSumOfWindows ==
    stats.packetsReceived = windowSum + packetRateCounter

\* C27 as stated: at every window boundary the packetsPerSecond published is
\* the number of datagrams received since the previous boundary and the
\* window counter is reset to 0; and packetsReceived is the sum of the window
\* counts published since the last reset plus the current window counter.
C27_WindowCountsSinceBoundary ==
    /\ [][WindowBoundary =>
            /\ stats'.packetsPerSecond = sinceBoundary
            /\ packetRateCounter' = 0]_vars
    /\ []PacketsReceivedIsSumOfWindows

\* C27 amended: at every window boundary the packetsPerSecond published is
\* the number of datagrams received since the previous boundary or, when the
\* statistics were reset since then, since that reset, and the window
\* counter is reset to 0; and packetsReceived is the sum of the window counts
\* published since the last reset plus the current window counter.
C27_WindowCountsSinceBoundaryOrReset ==
    /\ [][WindowBoundary =>
            /\ stats'.packetsPerSecond = sinceMark
            /\ packetRateCounter' = 0]_vars
    /\ []PacketsReceivedIsSumOfWindows

\* a window with one datagram was published and a datagram of the next
\* window is counted
C27_Witness ==
    /\ stats.packetsPerSecond = 1
    /\ windowSum = 1
    /\ packetRateCounter = 1
    /\ stats.packetsReceived = 2

\* a datagram of a supported format and of the kind id that is long enough
\* for its body decoder
C28_Decoded(msg, id) ==
    /\ Len(msg) >= C12_MinimumSize(id)
    /\ FormatOf(msg) \in {2025, 2024}
    /\ IdOf(msg) = id

\* the unsigned and the signed code in the byte at offset off
C28_Code(msg, off) == msg[off + 1]
C28_SignedCode(msg, off) ==
    IF msg[off + 1] > 127 THEN msg[off + 1] - 256 ELSE msg[off + 1]

\* C28: in what a Session, Lap Data or Car Status packet stores, a code
\* outside the table of its enumeration (weather 0..5, session type 0..17,
\* pit status 0..2, driver status 0..4, tyre compound 7..21, ERS mode 0..3,
\* flag -1..4) is shown as "Unknown".
C28_UnknownOutsideTable ==
    [][DecoderHandles =>
        /\ C28_Decoded(lastMsg', 1) =>
              /\ C28_Code(lastMsg', 29) \notin 0..5
                    => sessionInfo'.weather = "Unknown"
              /\ C28_Code(lastMsg', 35) \notin 0..17
                    => sessionInfo'.sessionType = "Unknown"
        /\ C28_Decoded(lastMsg', 2) =>
              \A i \in DOMAIN drivers' :
                  /\ C28_Code(lastMsg', 29 + 50 * i + 34) \notin 0..2
                        => drivers'[i].lapData.pitStatus = "Unknown"
                  /\ C28_Code(lastMsg', 29 + 50 * i + 44) \notin 0..4
                        => drivers'[i].lapData.driverStatus = "Unknown"
        /\ C28_Decoded(lastMsg', 7) =>
              \A i \in DOMAIN drivers' :
                  /\ C28_Code(lastMsg', 29 + 55 * i + 25) \notin 7..21
                        => drivers'[i].carStatus.tyreCompound = "Unknown"
                  /\ C28_Code(lastMsg', 29 + 55 * i + 41) \notin 0..3
                        => drivers'[i].carStatus.ersMode = "Unknown"
                  /\ C28_SignedCode(lastMsg', 29 + 55 * i + 28) \notin (-1)..4
                        => drivers'[i].carStatus.flags = "Unknown"]_vars

\* C29: a valid Session packet leaves in sessionInfo the value it carries
\* for each of weather, trackTemp, airTemp, totalLaps, trackLength,
\* sessionType and trackId (offsets 29, 30, 31, 32, 33, 35, 36).
C29_SessionOverwritesEveryField ==
    [][(DecoderHandles /\ C28_Decoded(lastMsg', 1)) =>
        /\ sessionInfo'.weather = getWeatherString(C28_Code(lastMsg', 29))
        /\ sessionInfo'.trackTemp = C28_SignedCode(lastMsg', 30)
        /\ sessionInfo'.airTemp = C28_SignedCode(lastMsg', 31)
        /\ sessionInfo'.totalLaps = C28_Code(lastMsg', 32)
        /\ sessionInfo'.sessionType = getSessionTypeString(C28_Code(lastMsg', 35))
        /\ sessionInfo'.trackId = C28_SignedCode(lastMsg', 36)
        /\ "trackLength" \in DOMAIN sessionInfo'
        /\ sessionInfo'.trackLength = LEValue(lastMsg', 33, 2)]_vars

\* C30: the keys of the table of drivers are car slots within 0..21, and no
\* step removes a key.
C30_SlotsWithinRangeNeverDeleted ==
    /\ [](DOMAIN drivers \subseteq 0..21)
    /\ [][DOMAIN drivers \subseteq DOMAIN drivers']_vars

\* a Participants packet of two cars has been decoded into a table that
\* held 22 cars: the 22 slots are still there
C30_Witness ==
    /\ lastMsg = ParticipantsNamed
    /\ DOMAIN drivers = 0..21
    /\ drivers[0].name = <<65, 66>>

\* the four bytes of the IEEE-754 word of a number that is not NaN
C22_FloatWord(f) ==
    <<f.fraction % 256, (f.fraction \div 256) % 256,
      (f.exponent % 2) * 128 + (f.fraction \div 65536),
      f.sign * 128 + (f.exponent \div 2)>>

\* writeFloatLE: the words it may write; for NaN the build chooses a NaN word
C22_writeFloatLE(f) ==
    IF f = NaN THEN {<<0, 0, 192, 127>>, <<0, 0, 192, 255>>}
    ELSE {C22_FloatWord(f)}

\* the envelopes that re-encoding the fields of header h can give: each
\* field written little-endian at its offset (0, 2, 3, 4, 5, 6, 7, 15, 19,
\* 23, 27, 28)
C22_Encode(h) ==
    {LEBytes(h.packetFormat, 2)
        \o <<h.gameYear, h.gameMajorVersion, h.gameMinorVersion, h.packetVersion,
             h.packetId>>
        \o LEBytes(h.sessionUID[1], 2) \o LEBytes(h.sessionUID[2], 2)
        \o LEBytes(h.sessionUID[3], 2) \o LEBytes(h.sessionUID[4], 2)
        \o time
        \o LEBytes(h.frameIdentifier.lo, 2) \o LEBytes(h.frameIdentifier.hi, 2)
        \o LEBytes(h.overallFrameIdentifier.lo, 2)
        \o LEBytes(h.overallFrameIdentifier.hi, 2)
        \o <<h.playerCarIndex, h.secondaryPlayerCarIndex>> :
     time \in C22_writeFloatLE(h.sessionTime)}

\* the 29 bytes of the envelope of a datagram
C22_EnvelopeOf(msg) == Slice(msg, 0, 29)

\* the session time of the envelope (bytes 15..18) is a NaN word
C22_TimeIsNaN(msg) ==
    /\ msg[19] % 128 = 127
    /\ msg[18] >= 128
    /\ <<msg[16], msg[17], msg[18] % 128>> # <<0, 0, 0>>

\* re-encoding the header of msg gives back the envelope of msg, and no
\* datagram with another envelope has the same header
C22_RoundTrip(msg) ==
    /\ C22_Encode(parseHeader(msg)) = {C22_EnvelopeOf(msg)}
    /\ \A other \in DecoderDatagrams :
          (Len(other) >= 29 /\ parseHeader(other) = parseHeader(msg))
              => C22_EnvelopeOf(other) = C22_EnvelopeOf(msg)

\* C22 as stated: header decoding is loss-free for every envelope of 29
\* bytes: re-encoding the decoded fields reproduces the 29 bytes, and two
\* different envelopes never decode to the same header.
C22_HeaderRoundTrip ==
    (decoderPacketCount > 0 /\ Len(lastMsg) >= 29) => C22_RoundTrip(lastMsg)

\* C22 amended: the same, for every envelope whose session time is not a NaN
\* word.
C22_HeaderRoundTripUnlessNaN ==
    (decoderPacketCount > 0 /\ Len(lastMsg) >= 29 /\ ~ C22_TimeIsNaN(lastMsg))
        => C22_RoundTrip(lastMsg)

\* a header whose fields are all different from 0, with the session time
\* 1.5, has been decoded
C22_Witness ==
    /\ decoderPacketCount > 0
    /\ Len(lastMsg) = 29
    /\ parseHeader(lastMsg).sessionTime =
           [sign |-> 0, exponent |-> 127, fraction |-> 4194304]
    /\ parseHeader(lastMsg).frameIdentifier = [lo |-> 513, hi |-> 1027]
    /\ parseHeader(lastMsg).sessionUID = <<513, 1027, 1541, 65287>>

\* the fields of a slot a Participants packet sets
C31_Identity == {"name", "raceNumber", "teamId", "isPlayer", "isAI"}

\* slot i is the same before and after the step but for the fields in own
C31_OnlyChanges(i, own) ==
    /\ DOMAIN drivers'[i] \subseteq DOMAIN drivers[i] \cup own
    /\ \A k \in DOMAIN drivers[i] \ own :
          k \in DOMAIN drivers'[i] /\ drivers'[i][k] = drivers[i][k]

\* a packet of the kind id keeps the slots of the table and changes only
\* the sub-record sub of a slot, which is the record of the slot in the
\* packet and nothing of the sub-record before
C31_Upsert(id, sub, stride) ==
    (Len(lastMsg') >= 29 /\ IdOf(lastMsg') = id) =>
        /\ DOMAIN drivers' = DOMAIN drivers
        /\ \A i \in DOMAIN drivers :
              /\ C31_OnlyChanges(i, {sub})
              /\ C28_Decoded(lastMsg', id) =>
                    drivers'[i][sub] =
                        CASE id = 6 -> CarTelemetryData(lastMsg', 29 + stride * i)
                          [] id = 2 -> LapData(lastMsg', 29 + stride * i)
                          [] OTHER -> CarStatusData(lastMsg', 29 + stride * i)

\* C31: a Car Telemetry, Lap Data or Car Status packet changes only the
\* sub-record of its kind in a slot, which it replaces as a whole (the new
\* sub-record is the record of the packet, whatever the old one held), and
\* leaves the identity and the other two sub-records as they were; a
\* Participants packet changes only identity fields; a packet of any other
\* id, or shorter than a header, leaves the table as it was.
C31_DecodersWriteOwnSubRecord ==
    [][DecoderHandles =>
        /\ C31_Upsert(6, "telemetry", 60)
        /\ C31_Upsert(2, "lapData", 50)
        /\ C31_Upsert(7, "carStatus", 55)
        /\ (Len(lastMsg') >= 29 /\ IdOf(lastMsg') = 4) =>
              /\ \A i \in DOMAIN drivers : C31_OnlyChanges(i, C31_Identity)
              /\ \A i \in DOMAIN drivers' \ DOMAIN drivers :
                    DOMAIN drivers'[i] = C31_Identity
        /\ (Len(lastMsg') < 29 \/ IdOf(lastMsg') \notin {2, 4, 6, 7})
              => drivers' = drivers]_vars

\* a Car Status packet has been decoded into a slot that held an identity
\* and lap data: the slot holds the three
C31_Witness ==
    /\ Len(lastMsg) = 1239
    /\ IdOf(lastMsg) = 7
    /\ 0 \in DOMAIN drivers
    /\ DOMAIN drivers[0] = C31_Identity \cup {"lapData", "carStatus"}

\* the gaps between consecutive datagrams handled since the last start
C32_Gaps ==
    {acceptedTimes[k + 1] - acceptedTimes[k] : k \in 1..(Len(acceptedTimes) - 1)}

\* maxGap is the largest gap between consecutive datagrams of the current
\* recording (0 when there is none)
C32_MaxGapIsLargest ==
    /\ \A g \in C32_Gaps : g <= maxGap
    /\ maxGap \in C32_Gaps \cup {0}

C33_WellFormed == fileBuffer = FileOf(recorded)

\* C33: replay of a well-formed capture file of N frames (frames of length
\* 0 among them) reaches 'complete' with exactly N datagrams sent, when the
\* scheduled calls are run; and the read offset grows with every frame sent.
C33_ReplayTerminates ==
    /\ [](C33_WellFormed =>
            <>(replayStatus = "complete" /\ Len(sent) = Len(recorded)
                 /\ replayPacketCount = Len(recorded)))
    /\ [][Len(sent') > Len(sent) => offset' > offset]_vars

\* a file of two frames, the first of them empty, has been replayed to its
\* end
C33_Witness ==
    /\ C33_WellFormed
    /\ Len(recorded) = 2
    /\ recorded[1].msg = <<>>
    /\ replayStatus = "complete"
    /\ Len(sent) = 2
    /\ sent[1].data = <<>>

\* the loop over count records of buffer decodes every one of them, and every
\* read of every record is inside the buffer
C34_AllInside(buffer, count, base, stride, reads) ==
    /\ Decoded(buffer, count, base, stride) = 0..(count - 1)
    /\ \A i \in 0..(count - 1) : \A r \in reads :
          InRange(buffer, base + stride * i + r[1], r[2])

\* C34: in a datagram that passes the minimum-size check of its car-array
\* decoder (Car Telemetry 1352, Lap Data 1131, Car Status 1239,
\* Participants 1306), every read of each of the 22 records (Participants:
\* of the min(active cars, 22) records) is inside the buffer, so that the
\* loop never stops early and no read gives its default.
C34_RecordsInsideBuffer ==
    (decoderPacketCount > 0 /\ Len(lastMsg) >= 29) =>
        /\ (IdOf(lastMsg) = 6 /\ Len(lastMsg) >= 1352)
              => C34_AllInside(lastMsg, 22, 29, 60, CarTelemetryReads)
        /\ (IdOf(lastMsg) = 2 /\ Len(lastMsg) >= 1131)
              => C34_AllInside(lastMsg, 22, 29, 50, LapDataReads)
        /\ (IdOf(lastMsg) = 7 /\ Len(lastMsg) >= 1239)
              => C34_AllInside(lastMsg, 22, 29, 55, CarStatusReads)
        /\ (IdOf(lastMsg) = 4 /\ Len(lastMsg) >= 1306)
              => C34_AllInside(lastMsg, Min(lastMsg[30], 22), 30, 58,
                               ParticipantReads)

\* a Car Status packet of exactly 1239 bytes has been decoded: its last
\* record ends at the end of the buffer
C34_Witness ==
    /\ decoderPacketCount > 0
    /\ Len(lastMsg) = 1239
    /\ IdOf(lastMsg) = 7
    /\ 21 \in DOMAIN drivers
    /\ "carStatus" \in DOMAIN drivers[21]

\* C35: the recorder is idle exactly when currentTempFile is null, and
\* exactly when writeStream is null; while recording, paused or finished it
\* has both a current temp file and a write stream (ended, when finished).
C35_IdleIffNoFileNoStream ==
    /\ currentState = "idle" <=> currentTempFile = NULL
    /\ currentState = "idle" <=> writeStream = NULL
    /\ currentState \in {"recording", "paused", "finished"} =>
          /\ currentTempFile # NULL
          /\ writeStream \in DOMAIN streams

\* a recording has been started and then saved or discarded: the recorder
\* is idle again, without a file and without a stream
C35_Witness ==
    /\ currentState = "idle"
    /\ currentTempFile = NULL
    /\ writeStream = NULL
    /\ Len(streams) > 0

\* the drain writes in flight: the chunks written with the drain callback
C36_InFlight ==
    UNION {{<<s, k>> : k \in {j \in DOMAIN streams[s].pending :
                                  streams[s].pending[j].cb}} :
           s \in DOMAIN streams}

\* C36: the drain is mutually exclusive and batched.  At most one drain
\* write is in flight, and isWriting says whether one is; a drain write
\* carries at most 100 frames, the frames at the head of the queue; and
\* while recording on a stream that is open a queue that is not empty has a
\* write in flight.
C36_DrainExclusiveAndBatched ==
    /\ [](/\ Cardinality(C36_InFlight) <= 1
          /\ C36_InFlight # {} => isWriting
          /\ \A w \in C36_InFlight :
                streams[w[1]].pending[w[2]].n <= 100
          /\ (currentState = "recording" /\ writeQueue # <<>>)
                => (isWriting /\ C36_InFlight # {}))
    /\ [][\A s \in DOMAIN streams :
            (Len(streams'[s].pending) > Len(streams[s].pending)
               /\ streams'[s].pending[Len(streams'[s].pending)].cb)
            => LET chunk == streams'[s].pending[Len(streams'[s].pending)]
                   taken == SubSeq(submitted', Len(submitted') - chunk.n + 1,
                                   Len(submitted'))
               IN  /\ chunk.n <= 100
                   /\ chunk.n = Min(100, Len(writeQueue') + chunk.n)
                   /\ chunk.bytes = ConcatEntries(taken)
                   /\ \/ taken \o writeQueue' = writeQueue
                      \/ /\ Delivered
                         /\ taken \o writeQueue'
                              = Append(writeQueue, accepted'[Len(accepted')])]_vars

\* the first write completed when 101 frames were queued: a batch of 100 is
\* in flight and one frame waits
C36_Witness ==
    /\ isWriting
    /\ currentState = "recording"
    /\ Len(writeQueue) = 1
    /\ Len(streams[1].pending) = 1
    /\ streams[1].pending[1].n = 100
    /\ streams[1].pending[1].cb

RECURSIVE C37_FrameBytes(_)
\* 12 + payload length, summed over the frames
C37_FrameBytes(entries) ==
    IF entries = <<>> THEN 0
    ELSE 12 + Len(Head(entries).data) + C37_FrameBytes(Tail(entries))

RECURSIVE C37_KindTotal(_)
C37_KindTotal(kinds) ==
    IF kinds = {} THEN 0
    ELSE LET k == CHOOSE t \in kinds : TRUE
         IN  packetStats[k] + C37_KindTotal(kinds \ {k})

\* C37: the recorder's counters are consistent.  Since the last start
\* packetCount is the number of frames enqueued, the per-kind counts sum to
\* packetCount and dataSize is the sum of 12 + payload length over the
\* enqueued frames; a start sets the counters to zero and empties the queue.
C37_CountersConsistent ==
    /\ [](/\ packetCount = Len(accepted)
          /\ C37_KindTotal(DOMAIN packetStats) = packetCount
          /\ dataSize = C37_FrameBytes(accepted))
    /\ [][(writeStream' # writeStream /\ writeStream' # NULL)
            => (/\ packetCount' = 0 /\ dataSize' = 0
                /\ DOMAIN packetStats' = {} /\ writeQueue' = <<>>
                /\ droppedPackets' = 0 /\ maxGap' = 0)]_vars

\* the car slots of the table whose isPlayer is true
C38_PlayerSlots(drv) ==
    {i \in DOMAIN drv : "isPlayer" \in DOMAIN drv[i] /\ drv[i].isPlayer = TRUE}

\* C38: after any sequence of Participants packets at most one car slot has
\* isPlayer = true, and it is the slot named by the playerCarIndex of the
\* latest Participants packet.
C38_OnePlayerSlot ==
    /\ [](Cardinality(C38_PlayerSlots(drivers)) <= 1)
    /\ [][C28_Decoded(lastMsg', 4)
            => C38_PlayerSlots(drivers') \subseteq {parseHeader(lastMsg').playerCarIndex}]_vars

\* C39: shutdown auto-save.  When cleanup is requested in Recording, Paused
\* or Finished the recorder ends in Idle with the capture file in permanent
\* storage, and that file holds every frame accepted before the request,
\* the frames still queued or in flight included.
C39_ShutdownSavesEveryFrame ==
    [][(cleanup /\ currentState \in {"recording", "paused", "finished"})
        => /\ currentState' = "idle"
           /\ exited'
           /\ currentTempFile \notin DOMAIN tempDir'
           /\ \E name \in DOMAIN dataDir' :
                 inodes'[dataDir'[name]] = ConcatEntries(accepted)]_vars

\* a write of stream s completes in the step
C40_Completes(s) ==
    /\ ~ exited'
    /\ Len(streams'[s].pending) = Len(streams[s].pending) - 1

\* the frames written through a stream were received during the recording
\* that opened it: what completes on a stream does not land in a file that
\* a later recording writes
C40_FramesStayInOwnFile ==
    [][\A s \in DOMAIN streams :
          (C40_Completes(s) /\ inodes' # inodes)
          => ~ \E later \in DOMAIN streams :
                 later > s /\ streams[later].inode = streams[s].inode]_vars

\* the completion of a write of an earlier recording leaves the dropped-frame
\* counter of the current one alone
C40_EarlierCallbackKeepsCounter ==
    [][\A s \in DOMAIN streams :
          (C40_Completes(s) /\ writeStream # NULL /\ s < writeStream)
          => droppedPackets' = droppedPackets]_vars

\* C40: recordings are isolated from one another.  Under any interleaving of
\* start, finish, save and discard with pending write callbacks, a frame
\* received during one recording is never written into the file of another
\* recording, and a write-completion callback of an earlier recording never
\* changes the dropped-frame counter of a later one.
C40_RecordingsIsolated ==
    C40_FramesStayInOwnFile /\ C40_EarlierCallbackKeepsCounter

====
